---- MODULE Spec2Model ----
(***************************************************************************)
(* libsame: Specific Area Message Encoding (SAME) header generator.        *)
(*                                                                         *)
(* The model follows src/src/libsame.c with the declarations of the        *)
(* current libsame.h (kept in src/include/libsame/debug.h from line 97     *)
(* on).  A generation context is a record with the fields of               *)
(* struct libsame_gen_ctx; libsame_ctx_init and libsame_samples_gen are    *)
(* the two public operations that change it.                               *)
(*                                                                         *)
(* Bytes are integers 0..255 (ASCII codes written out).  An unsigned int   *)
(* is kept as the 32-bit two's complement integer with the same bits, so   *)
(* 0xFFFFFFFF, the value 0 - 1 wraps to, is -1 (UintDec); the sums and     *)
(* products of libsame_ctx_init stay below 2^31 for the modelled rates,    *)
(* where they do not wrap.  The sine oracle (libsame_sin) is               *)
(* a build-time choice among sinf, a table, a Taylor series and an         *)
(* application callback, all of them float computations, so a sample is    *)
(* kept as the oracle call that produced it, <<kind, time index,           *)
(* frequency>>, never as a number the model would have to invent.          *)
(***************************************************************************)
EXTENDS Integers, Sequences, FiniteSets, TLC

(***************************************************************************)
(* Protocol constants (libsame.h)                                          *)
(***************************************************************************)
LIBSAME_PREAMBLE == 171
LIBSAME_PREAMBLE_NUM == 16
LIBSAME_ASCII_ID_LEN == 4
LIBSAME_ORIGINATOR_CODE_LEN == 3
LIBSAME_EVENT_CODE_LEN == 3
LIBSAME_LOCATION_CODES_NUM_MAX == 31
LIBSAME_LOCATION_CODE_LEN == 6
LIBSAME_VALID_TIME_PERIOD_LEN == 4
LIBSAME_ORIGINATOR_TIME_LEN == 7
LIBSAME_CALLSIGN_LEN == 8
LIBSAME_FIELDS_NUM_TOTAL == 6
\* the macro without the separators of the location codes
LIBSAME_HEADER_SIZE_MAX_NoLocationDashes ==
  LIBSAME_PREAMBLE_NUM + LIBSAME_ASCII_ID_LEN + LIBSAME_ORIGINATOR_CODE_LEN
  + LIBSAME_EVENT_CODE_LEN
  + LIBSAME_LOCATION_CODES_NUM_MAX * LIBSAME_LOCATION_CODE_LEN
  + LIBSAME_VALID_TIME_PERIOD_LEN + LIBSAME_ORIGINATOR_TIME_LEN
  + LIBSAME_CALLSIGN_LEN + LIBSAME_FIELDS_NUM_TOTAL

LIBSAME_HEADER_SIZE_MAX ==
  LIBSAME_PREAMBLE_NUM + LIBSAME_ASCII_ID_LEN + LIBSAME_ORIGINATOR_CODE_LEN
  + LIBSAME_EVENT_CODE_LEN
  + (LIBSAME_LOCATION_CODES_NUM_MAX * LIBSAME_LOCATION_CODE_LEN)
  + LIBSAME_VALID_TIME_PERIOD_LEN + LIBSAME_ORIGINATOR_TIME_LEN
  + LIBSAME_CALLSIGN_LEN + LIBSAME_LOCATION_CODES_NUM_MAX
  + LIBSAME_FIELDS_NUM_TOTAL
\* the EOM header counted without its "NNNN"
LIBSAME_EOM_HEADER_SIZE_PreambleOnly == LIBSAME_PREAMBLE_NUM

LIBSAME_EOM_HEADER_SIZE == LIBSAME_PREAMBLE_NUM + 4
LIBSAME_SAMPLES_NUM_MAX == 4096
LIBSAME_SEQ_STATE_NUM == 14

\* x - 1 on an unsigned int: 0 wraps to 0xFFFFFFFF (-1), and 0x80000000
\* (the least integer) goes to 0x7FFFFFFF
UintDec(x) == IF x = -2147483647 - 1 THEN 2147483647 ELSE x - 1

\* ASCII codes of the separators the serializer writes
CH_DASH == 45
CH_PLUS == 43

\* "SPOOKY"
LIBSAME_LOCATION_CODE_END_MARKER == <<83, 80, 79, 79, 75, 89>>

\* frequencies in tenths of a hertz (2083.3 Hz, 1562.5 Hz)
libsame_afsk_mark_freq_get == 20833
libsame_afsk_space_freq_get == 15625
libsame_afsk_bits_per_char_get == 8
\* the silence duration getter returning what the getter above it returns
libsame_silence_duration_get_BitsPerChar == libsame_afsk_bits_per_char_get

libsame_silence_duration_get == 1

\* the sequence states by kind
AfskHeaderStates == {0, 2, 4}
SilenceStates == {1, 3, 5, 7, 9, 11, 13}
AttentionState == 6
AfskEomStates == {8, 10, 12}

(***************************************************************************)
(* Samples                                                                 *)
(***************************************************************************)
\* the literal 0 that libsame_silence_gen stores, and a zeroed buffer holds
ZeroSample == <<"zero", 0, 0>>

\* the sine engines a build chooses among (LIBSAME_CONFIG_SINE_USE_LIBC,
\* _LUT, _TAYLOR, _APP); a context carries the engine of the build it belongs
\* to in the field build (libc sinf() is the default of config.h)
Engines == {"LIBC", "LUT", "TAYLOR", "APP"}

\* the entries of the table of the LUT engine
LIBSAME_CONFIG_SINE_LUT_SIZE == 1024

\* the shortest attention signal, in seconds
libsame_attn_sig_duration_min_get == 8

\* the maximum reported as the minimum
libsame_attn_sig_duration_max_get_AsMin == libsame_attn_sig_duration_min_get

\* the longest attention signal, in seconds
libsame_attn_sig_duration_max_get == 25

\* the two tones of the attention signal, 853 Hz and 960 Hz, in tenths
libsame_attn_sig_freq_first_get == 8530
libsame_attn_sig_freq_second_get == 9600

\* the table of the LUT engine (static int16_t sin_lut[]): one per process,
\* shared by every context
VARIABLE sin_lut

\* the table before libsame_init: static storage, every entry 0
SinLutZero == [i \in 0..(LIBSAME_CONFIG_SINE_LUT_SIZE - 1) |-> ZeroSample]

\* (int16_t)(sinf(2 pi i / LIBSAME_CONFIG_SINE_LUT_SIZE) * INT16_MAX)
LutSample(i) == <<"lut", i, 0>>

\* the table rebuilt from what it holds, not from the entry number
libsame_init_Accumulate(build, lut) ==
  IF build = "LUT"
  THEN [i \in DOMAIN lut |-> <<"lut", i, lut[i][3] + 1>>]
  ELSE lut

\* libsame_init(): the table filled, in the build of the LUT engine; nothing
\* in the other builds
libsame_init(build, lut) ==
  IF build = "LUT" THEN [i \in DOMAIN lut |-> LutSample(i)] ELSE lut

\* A phase accumulator (a float in units of table entries) is kept in units
\* of 1 / (10 * sample_rate) of an entry, in which the step
\* freq * LIBSAME_CONFIG_SINE_LUT_SIZE / sample_rate is the whole number
\* freq (in tenths of Hz) * LIBSAME_CONFIG_SINE_LUT_SIZE.
PhaseUnit(c) == 10 * c.sample_rate

\* the LUT engine with the reduction made while the phase is above the
\* table size (>) instead of at or above it (>=); a read past the table
\* gives a sample that names the entry it was read from
libsame_sin_ReducedAbove(c, phase, sample_num, freq) ==
  IF c.build = "LUT"
  THEN LET n == LIBSAME_CONFIG_SINE_LUT_SIZE * PhaseUnit(c)
           next == phase + freq * LIBSAME_CONFIG_SINE_LUT_SIZE
           idx == phase \div PhaseUnit(c)
       IN  [sample |-> IF idx \in DOMAIN sin_lut THEN sin_lut[idx]
                       ELSE <<"lut", idx, 0>>,
            phase |-> IF next > 0 /\ next % n = 0 THEN n ELSE next % n]
  ELSE [sample |-> <<IF c.build = "LIBC" THEN "sin"
                     ELSE IF c.build = "TAYLOR" THEN "taylor" ELSE "app",
                     sample_num, freq>>,
        phase |-> phase]

\* one call of the sine oracle on context c, with the phase accumulator
\* handed to it, at t = sample_num / sample_rate and frequency freq: the
\* sample returned and the accumulator left
libsame_sin(c, phase, sample_num, freq) ==
  IF c.build = "LUT"
  THEN [sample |-> sin_lut[phase \div PhaseUnit(c)],
        phase |-> (phase + freq * LIBSAME_CONFIG_SINE_LUT_SIZE)
                    % (LIBSAME_CONFIG_SINE_LUT_SIZE * PhaseUnit(c))]
  ELSE [sample |-> <<IF c.build = "LIBC" THEN "sin"
                     ELSE IF c.build = "TAYLOR" THEN "taylor" ELSE "app",
                     sample_num, freq>>,
        phase |-> phase]

\* libsame_sin(t, 853) / 2 + libsame_sin(t, 960) / 2 with t = n / sample_rate
AttnSample(n) == <<"attn", n, 0>>

\* the largest and the smallest int16_t
INT16_MAX == 32767
INT16_MIN == (-INT16_MAX) - 1

\* the quotient of the C division x / d, d > 0: truncated toward zero
TruncDiv(x, d) == IF x >= 0 THEN x \div d ELSE -((-x) \div d)

\* (int16_t)x for an int32_t x: the low 16 bits, as a signed number
Int16Cast(x) == ((x - INT16_MIN) % (2 * (INT16_MAX + 1))) + INT16_MIN

\* the oracle sample taken whole
AttnHalf_Whole(x) == x

\* libsame_sin(...) / (int32_t)sizeof(int16_t): the int16_t sample is
\* promoted to int and divided by 2
AttnHalf(x) == TruncDiv(x, 2)

\* first_sample + second_sample, an int32_t
AttnSum(a, b) == AttnHalf(a) + AttnHalf(b)

\* the sum of the halves of the two oracle samples a and b of attention
\* sample n: by the time index where the oracle is a function of t, by the
\* two table entries in the build of the LUT engine
AttnMix(c, a, b, n) ==
  IF c.build = "LIBC" THEN AttnSample(n)
  ELSE IF c.build = "LUT" THEN <<"attn_lut", a[2], b[2]>>
  ELSE <<IF c.build = "TAYLOR" THEN "attn_taylor" ELSE "attn_app", n, 0>>

(***************************************************************************)
(* Header descriptors (struct libsame_header): every char array keeps its  *)
(* terminating NUL, as declared (LEN + 1 bytes).                           *)
(***************************************************************************)
Nul(n) == [i \in 1..n |-> 0]

\* a six digit location code that differs from slot to slot
LocCode(i) == <<48, 52, 56, 48, 48 + (i \div 10), 48 + (i % 10), 0>>

\* k location codes, then the end marker when there is room for it
MakeHeader(k, attn) ==
  [location_codes |->
     [i \in 1..LIBSAME_LOCATION_CODES_NUM_MAX |->
        IF i <= k THEN LocCode(i)
        ELSE IF i = k + 1 THEN LIBSAME_LOCATION_CODE_END_MARKER \o <<0>>
        ELSE Nul(LIBSAME_LOCATION_CODE_LEN + 1)],
   valid_time_period |-> <<49, 48, 48, 48, 0>>,
   originator_code |-> <<87, 88, 82, 0>>,
   event_code |-> <<84, 79, 82, 0>>,
   callsign |-> <<87, 65, 69, 66, 47, 65, 77, 32, 0>>,
   originator_time |-> <<49, 49, 55, 50, 50, 50, 49, 0>>,
   attn_sig_duration |-> attn]

\* struct libsame_header header = {} (tests of libsame_ctx_init)
ZeroHeader ==
  [location_codes |->
     [i \in 1..LIBSAME_LOCATION_CODES_NUM_MAX |->
        Nul(LIBSAME_LOCATION_CODE_LEN + 1)],
   valid_time_period |-> Nul(LIBSAME_VALID_TIME_PERIOD_LEN + 1),
   originator_code |-> Nul(LIBSAME_ORIGINATOR_CODE_LEN + 1),
   event_code |-> Nul(LIBSAME_EVENT_CODE_LEN + 1),
   callsign |-> Nul(LIBSAME_CALLSIGN_LEN + 1),
   originator_time |-> Nul(LIBSAME_ORIGINATOR_TIME_LEN + 1),
   attn_sig_duration |-> 0]

\* k location codes, the end marker, and slots behind the marker that are not
\* empty: location codes when tail is "codes" (the marker slot then ends in
\* '9', not in NUL), the marker again when tail is "markers" (the first code
\* is then "SPOOKZ", one byte off the marker)
MarkerHeader(k, tail) ==
  [MakeHeader(k, 8) EXCEPT
     !.location_codes =
        [i \in 1..LIBSAME_LOCATION_CODES_NUM_MAX |->
           IF i = 1 /\ k >= 1 /\ tail = "markers"
           THEN <<83, 80, 79, 79, 75, 90, 0>>
           ELSE IF i <= k THEN LocCode(i)
           ELSE IF i = k + 1
           THEN LIBSAME_LOCATION_CODE_END_MARKER
                  \o <<IF tail = "codes" THEN 57 ELSE 0>>
           ELSE IF tail = "codes" THEN LocCode(i)
           ELSE LIBSAME_LOCATION_CODE_END_MARKER \o <<0>>]]

(***************************************************************************)
(* The generation context (struct libsame_gen_ctx), zeroed                 *)
(***************************************************************************)
ZeroCtx ==
  [sample_data |-> [i \in 0..(LIBSAME_SAMPLES_NUM_MAX - 1) |-> ZeroSample],
   header_data |-> [i \in 0..(LIBSAME_HEADER_SIZE_MAX - 1) |-> 0],
   seq_samples_remaining |-> [p \in 0..(LIBSAME_SEQ_STATE_NUM - 1) |-> 0],
   afsk |-> [data_pos |-> 0, phase |-> 0, bit_pos |-> 0, sample_num |-> 0],
   header_size |-> 0,
   attn_sig_phase_first |-> 0,
   attn_sig_phase_second |-> 0,
   sample_rate |-> 0,
   afsk_samples_per_bit |-> 0,
   seq_state |-> 0,
   attn_sig_sample_num |-> 0,
   build |-> "LIBC"]

(***************************************************************************)
(* Header serialization.  The serializer state is the buffer, the occupied *)
(* size and, for the record, every store in the order the code makes it    *)
(* (log: <<index, byte>>).  header_data has LIBSAME_HEADER_SIZE_MAX bytes; *)
(* a store past its end is logged and leaves the buffer alone.             *)
(***************************************************************************)
\* TRUE, once x has been evaluated: the argument of a loop written as a
\* recursion is otherwise evaluated only when the loop is over, with all its
\* pending stores nested in each other
Evaluated(x) == x = x

\* data[i] = b
Store(hs, i, b) ==
  [hs EXCEPT !.data = IF i \in DOMAIN @ THEN [@ EXCEPT ![i] = b] ELSE @,
             !.log = Append(@, <<i, b>>)]

\* memcpy(&data[off], src, n): src[1..n] to data[off..off+n-1], byte by byte
RECURSIVE MemcpyFrom(_, _, _, _, _)
MemcpyFrom(hs, off, src, n, j) ==
  IF Evaluated(hs) /\ j > n THEN hs
  ELSE MemcpyFrom(Store(hs, off + j - 1, src[j]), off, src, n, j + 1)

Memcpy(hs, off, src, n) == MemcpyFrom(hs, off, src, n, 1)

\* memcmp(a, b, n) == 0
MemEq(a, b, n) == SubSeq(a, 1, n) = SubSeq(b, 1, n)

\* the dash stored but not counted in the size
libsame_field_add_DashUncounted(hs, field, field_len) ==
  LET copied == Memcpy(hs, hs.size, field, field_len)
      sized == [copied EXCEPT !.size = @ + field_len]
  IN  Store(sized, sized.size, CH_DASH)

\* the field without the dash that follows it
libsame_field_add_NoDash(hs, field, field_len) ==
  LET copied == Memcpy(hs, hs.size, field, field_len)
  IN  [copied EXCEPT !.size = @ + field_len]

libsame_field_add(hs, field, field_len) ==
  LET copied == Memcpy(hs, hs.size, field, field_len)
      sized == [copied EXCEPT !.size = @ + field_len]
  IN  [Store(sized, sized.size, CH_DASH) EXCEPT !.size = @ + 1]

\* the initial header without the dash after "ZCZC"
LIBSAME_INITIAL_HEADER_NoDash ==
  [i \in 1..LIBSAME_PREAMBLE_NUM |-> LIBSAME_PREAMBLE]
  \o <<90, 67, 90, 67>>
  \o <<79, 82, 71, CH_DASH, 69, 69, 69, CH_DASH, 80, 83, 83, 67, 67, 67>>

\* preamble, "ZCZC", '-' and the placeholder "ORG-EEE-PSSCCC"
LIBSAME_INITIAL_HEADER ==
  [i \in 1..LIBSAME_PREAMBLE_NUM |-> LIBSAME_PREAMBLE]
  \o <<90, 67, 90, 67, CH_DASH>>
  \o <<79, 82, 71, CH_DASH, 69, 69, 69, CH_DASH, 80, 83, 83, 67, 67, 67>>

\* the loop with continue in the place of break: the marker is skipped and
\* the slots after it are serialized
RECURSIVE LocationCodesAdd_Continue(_, _, _)
LocationCodesAdd_Continue(hs, header, i) ==
  IF Evaluated(hs) /\ i >= LIBSAME_LOCATION_CODES_NUM_MAX THEN hs
  ELSE IF MemEq(header.location_codes[i + 1],
                LIBSAME_LOCATION_CODE_END_MARKER, LIBSAME_LOCATION_CODE_LEN)
       THEN LocationCodesAdd_Continue(hs, header, i + 1)
  ELSE LocationCodesAdd_Continue(
         libsame_field_add(hs, header.location_codes[i + 1],
                           LIBSAME_LOCATION_CODE_LEN),
         header, i + 1)

\* for (i = 0; i < LIBSAME_LOCATION_CODES_NUM_MAX; ++i): slot i of the C
\* array is location_codes[i + 1] here
RECURSIVE LocationCodesAdd(_, _, _)
LocationCodesAdd(hs, header, i) ==
  IF Evaluated(hs) /\ i >= LIBSAME_LOCATION_CODES_NUM_MAX THEN hs
  ELSE IF MemEq(header.location_codes[i + 1],
                LIBSAME_LOCATION_CODE_END_MARKER, LIBSAME_LOCATION_CODE_LEN)
       THEN hs
  ELSE LocationCodesAdd(
         libsame_field_add(hs, header.location_codes[i + 1],
                           LIBSAME_LOCATION_CODE_LEN),
         header, i + 1)

\* the plus stored one byte too far, where the next field overwrites it
PlusStore_AtSize(hs) == Store(hs, hs.size, CH_PLUS)

\* ctx->header_data[ctx->header_size - 1] = '+'
PlusStore(hs) == Store(hs, hs.size - 1, CH_PLUS)

\* the serializer appending to the size the context already holds
HeaderSerialize_SizeAdded(c, header) ==
  LET h0 == Memcpy([data |-> c.header_data, size |-> c.header_size,
                    log |-> << >>],
                   0, LIBSAME_INITIAL_HEADER, Len(LIBSAME_INITIAL_HEADER))
      h1 == [h0 EXCEPT !.size = @ + LIBSAME_PREAMBLE_NUM
                                  + LIBSAME_ASCII_ID_LEN + 1]
      h2 == libsame_field_add(h1, header.originator_code,
                              LIBSAME_ORIGINATOR_CODE_LEN)
      h3 == libsame_field_add(h2, header.event_code, LIBSAME_EVENT_CODE_LEN)
      h4 == LocationCodesAdd(h3, header, 0)
      h5 == PlusStore(h4)
      h6 == libsame_field_add(h5, header.valid_time_period,
                              LIBSAME_VALID_TIME_PERIOD_LEN)
      h7 == libsame_field_add(h6, header.originator_time,
                              LIBSAME_ORIGINATOR_TIME_LEN)
  IN  libsame_field_add(h7, header.callsign, LIBSAME_CALLSIGN_LEN)

\* the serializer with the originator time before the valid time period
HeaderSerialize_TimesSwapped(c, header) ==
  LET h0 == Memcpy([data |-> c.header_data, size |-> c.header_size,
                    log |-> << >>],
                   0, LIBSAME_INITIAL_HEADER, Len(LIBSAME_INITIAL_HEADER))
      h1 == [h0 EXCEPT !.size = LIBSAME_PREAMBLE_NUM + LIBSAME_ASCII_ID_LEN + 1]
      h2 == libsame_field_add(h1, header.originator_code,
                              LIBSAME_ORIGINATOR_CODE_LEN)
      h3 == libsame_field_add(h2, header.event_code, LIBSAME_EVENT_CODE_LEN)
      h4 == LocationCodesAdd(h3, header, 0)
      h5 == PlusStore(h4)
      h6 == libsame_field_add(h5, header.originator_time,
                              LIBSAME_ORIGINATOR_TIME_LEN)
      h7 == libsame_field_add(h6, header.valid_time_period,
                              LIBSAME_VALID_TIME_PERIOD_LEN)
  IN  libsame_field_add(h7, header.callsign, LIBSAME_CALLSIGN_LEN)

\* the part of libsame_ctx_init that writes header_data and header_size
HeaderSerialize(c, header) ==
  LET h0 == Memcpy([data |-> c.header_data, size |-> c.header_size,
                    log |-> << >>],
                   0, LIBSAME_INITIAL_HEADER, Len(LIBSAME_INITIAL_HEADER))
      h1 == [h0 EXCEPT !.size = LIBSAME_PREAMBLE_NUM + LIBSAME_ASCII_ID_LEN + 1]
      h2 == libsame_field_add(h1, header.originator_code,
                              LIBSAME_ORIGINATOR_CODE_LEN)
      h3 == libsame_field_add(h2, header.event_code, LIBSAME_EVENT_CODE_LEN)
      h4 == LocationCodesAdd(h3, header, 0)
      h5 == PlusStore(h4)
      h6 == libsame_field_add(h5, header.valid_time_period,
                              LIBSAME_VALID_TIME_PERIOD_LEN)
      h7 == libsame_field_add(h6, header.originator_time,
                              LIBSAME_ORIGINATOR_TIME_LEN)
  IN  libsame_field_add(h7, header.callsign, LIBSAME_CALLSIGN_LEN)

\* 520.83 bits per second, in hundredths
libsame_afsk_bit_rate_get == 52083

\* the conversion to unsigned int without roundf: the quotient truncated
SamplesPerBit_Truncated(sample_rate) ==
  (sample_rate * 100) \div libsame_afsk_bit_rate_get

\* (unsigned int)roundf((1.0F / 520.83F) * (float)sample_rate): the nearest
\* integer to sample_rate / 520.83.  No rate is half way (52083 is odd), and
\* the float computation gives this integer for every rate below 222134.
SamplesPerBit(sample_rate) ==
  (sample_rate * 200 + libsame_afsk_bit_rate_get)
    \div (2 * libsame_afsk_bit_rate_get)

\* the initialisation that also rewinds the sequence to its first phase
libsame_ctx_init_Rewinds(c, header, sample_rate) ==
  LET hs == HeaderSerialize(c, header)
      spb == SamplesPerBit(sample_rate)
      hdr == libsame_afsk_bits_per_char_get * spb * hs.size
      eom == libsame_afsk_bits_per_char_get * spb * LIBSAME_EOM_HEADER_SIZE
      sil == libsame_silence_duration_get * sample_rate
      att == header.attn_sig_duration * sample_rate
  IN  [c EXCEPT !.header_data = hs.data,
                !.sample_rate = sample_rate,
                !.header_size = hs.size,
                !.afsk_samples_per_bit = spb,
                !.seq_state = 0,
                !.seq_samples_remaining =
                   [p \in DOMAIN @ |->
                      IF p \in AfskHeaderStates THEN hdr
                      ELSE IF p \in AfskEomStates THEN eom
                      ELSE IF p \in SilenceStates THEN sil
                      ELSE att]]

\* the header budgets computed from the size the context had on entry
libsame_ctx_init_StaleSize(c, header, sample_rate) ==
  LET hs == HeaderSerialize(c, header)
      spb == SamplesPerBit(sample_rate)
      hdr == libsame_afsk_bits_per_char_get * spb * c.header_size
      eom == libsame_afsk_bits_per_char_get * spb * LIBSAME_EOM_HEADER_SIZE
      sil == libsame_silence_duration_get * sample_rate
      att == header.attn_sig_duration * sample_rate
  IN  [c EXCEPT !.header_data = hs.data,
                !.sample_rate = sample_rate,
                !.header_size = hs.size,
                !.afsk_samples_per_bit = spb,
                !.seq_samples_remaining =
                   [p \in DOMAIN @ |->
                      IF p \in AfskHeaderStates THEN hdr
                      ELSE IF p \in AfskEomStates THEN eom
                      ELSE IF p \in SilenceStates THEN sil
                      ELSE att]]

libsame_ctx_init(c, header, sample_rate) ==
  LET hs == HeaderSerialize(c, header)
      spb == SamplesPerBit(sample_rate)
      hdr == libsame_afsk_bits_per_char_get * spb * hs.size
      eom == libsame_afsk_bits_per_char_get * spb * LIBSAME_EOM_HEADER_SIZE
      sil == libsame_silence_duration_get * sample_rate
      att == header.attn_sig_duration * sample_rate
  IN  [c EXCEPT !.header_data = hs.data,
                !.sample_rate = sample_rate,
                !.header_size = hs.size,
                !.afsk_samples_per_bit = spb,
                !.seq_samples_remaining =
                   [p \in DOMAIN @ |->
                      IF p \in AfskHeaderStates THEN hdr
                      ELSE IF p \in AfskEomStates THEN eom
                      ELSE IF p \in SilenceStates THEN sil
                      ELSE att]]

(***************************************************************************)
(* Sample generation                                                       *)
(***************************************************************************)
\* 16 preamble bytes and "NNNN", indexed from 0 as the C array
LIBSAME_EOM_HEADER ==
  [i \in 0..(LIBSAME_EOM_HEADER_SIZE - 1) |->
     IF i < LIBSAME_PREAMBLE_NUM THEN LIBSAME_PREAMBLE ELSE 78]

\* memset(&ctx->afsk, 0, sizeof(ctx->afsk))
AfskZero == [data_pos |-> 0, phase |-> 0, bit_pos |-> 0, sample_num |-> 0]

\* data[i]; the burst never indexes past the buffer it is given (a read
\* there would be of whatever follows it; 0 stands for it)
ByteAt(data, i) == IF i \in DOMAIN data THEN data[i] ELSE 0

\* the bits of a byte taken from the most significant one down
AfskFreq_MsbFirst(c, data) ==
  IF (ByteAt(data, c.afsk.data_pos)
        \div (2 ^ (libsame_afsk_bits_per_char_get - 1 - c.afsk.bit_pos))) % 2 = 1
  THEN libsame_afsk_mark_freq_get
  ELSE libsame_afsk_space_freq_get

\* the frequency of the current bit: (data[data_pos] >> bit_pos) & 1
AfskFreq(c, data) ==
  IF (ByteAt(data, c.afsk.data_pos) \div (2 ^ c.afsk.bit_pos)) % 2 = 1
  THEN libsame_afsk_mark_freq_get
  ELSE libsame_afsk_space_freq_get

\* the bit one sample longer in the build of the LUT engine
AfskAdvance_LutBitLonger(c, data_size) ==
  LET a == c.afsk
      sn == a.sample_num + 1
      spb == IF c.build = "LUT" THEN c.afsk_samples_per_bit + 1
             ELSE c.afsk_samples_per_bit
  IN  IF sn >= spb
      THEN IF a.bit_pos + 1 >= libsame_afsk_bits_per_char_get
           THEN IF a.data_pos + 1 >= data_size
                THEN AfskZero
                ELSE [a EXCEPT !.sample_num = 0, !.bit_pos = 0,
                               !.data_pos = @ + 1]
           ELSE [a EXCEPT !.sample_num = 0, !.bit_pos = @ + 1]
      ELSE [a EXCEPT !.sample_num = sn]

\* the AFSK sub-state after one sample
AfskAdvance(c, data_size) ==
  LET a == c.afsk
      sn == a.sample_num + 1
  IN  IF sn >= c.afsk_samples_per_bit
      THEN IF a.bit_pos + 1 >= libsame_afsk_bits_per_char_get
           THEN IF a.data_pos + 1 >= data_size
                THEN AfskZero
                ELSE [a EXCEPT !.sample_num = 0, !.bit_pos = 0,
                               !.data_pos = @ + 1]
           ELSE [a EXCEPT !.sample_num = 0, !.bit_pos = @ + 1]
      ELSE [a EXCEPT !.sample_num = sn]

\* An iteration of the loop of libsame_samples_gen works on g: g.ctx is the
\* context and g.log the stores into sample_data it makes, <<index, sample>>
\* in the order made.  Nothing in the loop reads sample_data, so the stores of
\* a call are applied to the buffer when the loop is left (SampleStoresApply).

\* ctx->sample_data[sample_pos] = sample
SampleStore(g, sample_pos, sample) ==
  [g EXCEPT !.log = Append(@, <<sample_pos, sample>>)]

libsame_afsk_gen(g, data, data_size, sample_pos) ==
  LET s == libsame_sin(g.ctx, g.ctx.afsk.phase, g.ctx.afsk.sample_num,
                       AfskFreq(g.ctx, data))
  IN  [SampleStore(g, sample_pos, s.sample)
         EXCEPT !.ctx.afsk =
                  AfskAdvance([g.ctx EXCEPT !.afsk.phase = s.phase],
                              data_size)]

libsame_silence_gen(g, sample_pos) == SampleStore(g, sample_pos, ZeroSample)

\* the attention signal without the count of its samples
libsame_attn_sig_gen_NoCount(g, sample_pos) ==
  LET n == g.ctx.attn_sig_sample_num
      a == libsame_sin(g.ctx, g.ctx.attn_sig_phase_first, n,
                       libsame_attn_sig_freq_first_get)
      b == libsame_sin(g.ctx, g.ctx.attn_sig_phase_second, n,
                       libsame_attn_sig_freq_second_get)
  IN  [SampleStore(g, sample_pos, AttnMix(g.ctx, a.sample, b.sample, n))
         EXCEPT !.ctx.attn_sig_phase_first = a.phase,
                !.ctx.attn_sig_phase_second = b.phase]

libsame_attn_sig_gen(g, sample_pos) ==
  LET n == g.ctx.attn_sig_sample_num
      a == libsame_sin(g.ctx, g.ctx.attn_sig_phase_first, n,
                       libsame_attn_sig_freq_first_get)
      b == libsame_sin(g.ctx, g.ctx.attn_sig_phase_second, n,
                       libsame_attn_sig_freq_second_get)
  IN  [SampleStore(g, sample_pos, AttnMix(g.ctx, a.sample, b.sample, n))
         EXCEPT !.ctx.attn_sig_phase_first = a.phase,
                !.ctx.attn_sig_phase_second = b.phase,
                !.ctx.attn_sig_sample_num = @ + 1]

\* the EOM bursts modulated from the header buffer
Dispatch_EomFromHeader(g, sample_count) ==
  IF g.ctx.seq_state \in AfskHeaderStates
  THEN libsame_afsk_gen(g, g.ctx.header_data, g.ctx.header_size, sample_count)
  ELSE IF g.ctx.seq_state \in SilenceStates
  THEN libsame_silence_gen(g, sample_count)
  ELSE IF g.ctx.seq_state = AttentionState
  THEN libsame_attn_sig_gen(g, sample_count)
  ELSE libsame_afsk_gen(g, g.ctx.header_data, LIBSAME_EOM_HEADER_SIZE,
                        sample_count)

\* switch (ctx->seq_state)
Dispatch(g, sample_count) ==
  IF g.ctx.seq_state \in AfskHeaderStates
  THEN libsame_afsk_gen(g, g.ctx.header_data, g.ctx.header_size, sample_count)
  ELSE IF g.ctx.seq_state \in SilenceStates
  THEN libsame_silence_gen(g, sample_count)
  ELSE IF g.ctx.seq_state = AttentionState
  THEN libsame_attn_sig_gen(g, sample_count)
  ELSE libsame_afsk_gen(g, LIBSAME_EOM_HEADER, LIBSAME_EOM_HEADER_SIZE,
                        sample_count)

\* the decrement taken from the budget of the last phase as well
BudgetStep_CountsLast(g) ==
  LET p == g.ctx.seq_state
      rem == UintDec(g.ctx.seq_samples_remaining[p])
      last == LIBSAME_SEQ_STATE_NUM - 1
  IN  [g EXCEPT !.ctx.seq_samples_remaining =
                   [q \in DOMAIN @ |->
                      IF q = p THEN rem
                      ELSE IF q = last THEN UintDec(@[q]) ELSE @[q]],
                !.ctx.seq_state = IF rem = 0 THEN p + 1 ELSE p]

\* the phase advanced on the last sample but one of its budget
BudgetStep_AdvanceEarly(g) ==
  LET p == g.ctx.seq_state
      rem == UintDec(g.ctx.seq_samples_remaining[p])
  IN  [g EXCEPT !.ctx.seq_samples_remaining[p] = rem,
                !.ctx.seq_state = IF rem = 1 THEN p + 1 ELSE p]

\* the phase advanced by two when the budget is used up
BudgetStep_AdvanceTwo(g) ==
  LET p == g.ctx.seq_state
      rem == UintDec(g.ctx.seq_samples_remaining[p])
  IN  [g EXCEPT !.ctx.seq_samples_remaining[p] = rem,
                !.ctx.seq_state = IF rem = 0 THEN p + 2 ELSE p]

\* ctx->seq_samples_remaining[ctx->seq_state]--, and the phase advanced when
\* the budget is used up
BudgetStep(g) ==
  LET p == g.ctx.seq_state
      rem == UintDec(g.ctx.seq_samples_remaining[p])
  IN  [g EXCEPT !.ctx.seq_samples_remaining[p] = rem,
                !.ctx.seq_state = IF rem = 0 THEN p + 1 ELSE p]

\* one iteration of the for loop on context c
LoopBody(c, sample_count) ==
  BudgetStep(Dispatch([ctx |-> c, log |-> << >>], sample_count))

\* iterations lo..hi-1 of the loop, in order, on context c: the context they
\* leave and their stores.  The loop is left (return) as soon as seq_state is
\* LIBSAME_SEQ_STATE_NUM.  The range is split in halves only to keep the
\* evaluation shallow.
RECURSIVE GenRange(_, _, _)
GenRange(c, lo, hi) ==
  IF c.seq_state >= LIBSAME_SEQ_STATE_NUM THEN [ctx |-> c, log |-> << >>]
  ELSE IF hi - lo = 1 THEN LoopBody(c, lo)
  ELSE LET mid == (lo + hi) \div 2
           l == GenRange(c, lo, mid)
           r == GenRange(l.ctx, mid, hi)
       IN  [ctx |-> r.ctx, log |-> l.log \o r.log]

\* the stores of log[lo..hi] made one after the other on the buffer sd (a
\* buffer without an index takes none)
RECURSIVE StoreEach(_, _, _, _)
StoreEach(sd, log, lo, hi) ==
  IF DOMAIN sd = {} \/ hi < lo THEN sd
  ELSE IF hi = lo
  THEN IF log[lo][1] \in DOMAIN sd
       THEN [sd EXCEPT ![log[lo][1]] = log[lo][2]] ELSE sd
  ELSE LET mid == (lo + hi) \div 2
       IN  StoreEach(StoreEach(sd, log, lo, mid), log, mid + 1, hi)

\* sample_data after the stores of log.  When the stores went to the indices
\* 0, 1, 2, ... in this order (and fit), the result is written down directly.
SampleStoresApply(sd, log) ==
  IF /\ Len(log) > 1
     /\ Len(log) <= LIBSAME_SAMPLES_NUM_MAX
     /\ \A j \in 1..Len(log) : log[j][1] = j - 1
  THEN [i \in DOMAIN sd |-> IF i < Len(log) THEN log[i + 1][2] ELSE sd[i]]
  ELSE StoreEach(sd, log, 1, Len(log))

\* the call that clears the entries of sample_data it did not store
GenChunk_ZeroTail(c, chunk) ==
  LET g == GenRange(c, 0, chunk)
  IN  [ctx |-> [g.ctx EXCEPT !.sample_data =
                  [i \in DOMAIN @ |->
                     IF i < Len(g.log) THEN g.log[i + 1][2] ELSE ZeroSample]],
       log |-> g.log]

\* the call with the AFSK sub-state started afresh on entry
GenChunk_AfskReset(c, chunk) ==
  LET g == GenRange([c EXCEPT !.afsk = AfskZero], 0, chunk)
  IN  [ctx |-> [g.ctx EXCEPT !.sample_data = SampleStoresApply(@, g.log)],
       log |-> g.log]

\* libsame_samples_gen with a chunk of chunk samples: the context it leaves
\* and the stores it made
GenChunk(c, chunk) ==
  LET g == GenRange(c, 0, chunk)
  IN  [ctx |-> [g.ctx EXCEPT !.sample_data = SampleStoresApply(@, g.log)],
       log |-> g.log]

\* the loop one iteration short: the chunk is 4095 samples
libsame_samples_gen_OneLess(c) == GenChunk(c, LIBSAME_SAMPLES_NUM_MAX - 1)

\* the loop bound off by one: sample_count <= LIBSAME_SAMPLES_NUM_MAX
libsame_samples_gen_OneMore(c) == GenChunk(c, LIBSAME_SAMPLES_NUM_MAX + 1)

libsame_samples_gen(c) == GenChunk(c, LIBSAME_SAMPLES_NUM_MAX)

(***************************************************************************)
(* The reference stream: the same loop run one sample per call.            *)
(***************************************************************************)
\* calls lo..hi-1 of the generator with a chunk of one sample, on context r,
\* for as long as r is not terminal: the context left and the samples each
\* call left in sample_data[0], in order
RECURSIVE RefRange(_, _, _)
RefRange(r, lo, hi) ==
  IF r.seq_state >= LIBSAME_SEQ_STATE_NUM THEN [ctx |-> r, out |-> << >>]
  ELSE IF hi - lo = 1
  THEN LET g == GenChunk(r, 1)
       IN  [ctx |-> g.ctx, out |-> <<g.ctx.sample_data[0]>>]
  ELSE LET mid == (lo + hi) \div 2
           l == RefRange(r, lo, mid)
           h == RefRange(l.ctx, mid, hi)
       IN  [ctx |-> h.ctx, out |-> l.out \o h.out]

(***************************************************************************)
(* The caller: a zeroed context is initialised once and then driven by     *)
(* libsame_samples_gen until it is terminal (examples/basic.c).            *)
(***************************************************************************)
\* the most calls of libsame_samples_gen one run of the model makes
MaxCalls == 205

\* the sum of the entries of a budget vector
RECURSIVE SumUpTo(_, _)
SumUpTo(f, p) == IF p < 0 THEN 0 ELSE f[p] + SumUpTo(f, p - 1)

BudgetSum(c) == SumUpTo(c.seq_samples_remaining, LIBSAME_SEQ_STATE_NUM - 1)

\* the descriptors and sample rates of the generation runs: the canonical
\* header at the tested rate, short runs at lower rates, the lowest rate with
\* a sample per bit (261 Hz), and 1 Hz
Scenarios ==
  { <<44100, MakeHeader(2, 8)>>,
    <<8000, MakeHeader(1, 8)>>,
    <<8000, MakeHeader(31, 25)>>,
    <<261, MakeHeader(0, 8)>>,
    <<1, MakeHeader(2, 8)>>,
    <<1, ZeroHeader>> }

\* the descriptors and sample rates of the serializer runs: every number of
\* location codes, both ends of the attention range, and the all-zero header
InitScenarios ==
  { <<sr, MakeHeader(k, attn)>> :
      sr \in {8000, 44100}, k \in 0..LIBSAME_LOCATION_CODES_NUM_MAX,
      attn \in {8, 25} }
  \cup { <<44100, ZeroHeader>> }

\* the runs that are also generated one sample at a time
StreamScenarios ==
  { <<8000, MakeHeader(1, 8)>>,
    <<8000, MakeHeader(0, 25)>>,
    <<261, MakeHeader(2, 8)>> }

\* ctx, header: the context and the descriptor it was initialised from
\* pc: "zeroed" before libsame_ctx_init, "ready" after
\* calls, emitted: calls of libsame_samples_gen made, samples they stored
\* budget_total: the sum of the phase budgets libsame_ctx_init computed
\* seq_seen: the distinct values of seq_state seen at the returns, in order
\* init_log, gen_log: the stores of libsame_ctx_init into header_data and of
\*   the last libsame_samples_gen into sample_data
\* ref, ref_out: the context generated one sample at a time and the samples
\*   it produced over the window of the last call
\* asserts: the library is built with LIBSAME_ASSERT (NDEBUG not defined)
\* call: the last call made, <<function, context argument, header argument>>
\* assert_failed: the expression handed to libsame_assert_failed, "" if none
\* inits: the calls of libsame_ctx_init made on the context
\* pc is "aborted" once libsame_assert_failed has been called (it does not
\* return) and "undefined" once a call has had undefined behaviour
\* lib_inits: the calls of libsame_init made
\* other: a second context of the same process, with its own pc and calls
\* variants: the same run made by the build of each sine engine, side by
\*   side: the context of each build, and the frequencies its oracle was
\*   handed over the last call
\* reported: what the getters of the attention signal durations returned
\*   last, <<minimum, maximum>>; << >> before they are called
\* bursts: the first samples each AFSK phase has stored so far, followed in
\*   the runs at a rate without a sample per bit
\* mix: one attention sample in numbers: the two samples the oracle returned
\*   and, once libsame_attn_sig_gen has stored the sample, the value stored
VARIABLES ctx, header, pc, calls, emitted, budget_total, seq_seen,
          init_log, gen_log, ref, ref_out,
          asserts, call, assert_failed, inits,
          lib_inits, other, variants, mix, reported, bursts

\* what a run of one context in the default build leaves alone
procvars == <<sin_lut, lib_inits, other, variants, mix, reported, bursts>>

vars == <<ctx, header, pc, calls, emitted, budget_total, seq_seen,
          init_log, gen_log, ref, ref_out,
          asserts, call, assert_failed, inits, procvars>>

\* no burst has stored a sample
NoBursts == [p \in AfskHeaderStates \cup AfskEomStates |-> << >>]

\* no call made yet
NoCall == <<"none", "-", "-">>

\* no attention sample followed in numbers
NoMix == [first |-> 0, second |-> 0, sum |-> 0, stored |-> 0, done |-> FALSE]

\* the second context when the program has only one
NoOther == [ctx |-> ZeroCtx, pc |-> "unused", calls |-> 0]

\* the zeroed context of a program that has made no call
InitCtx ==
  /\ ctx = ZeroCtx
  /\ header = ZeroHeader
  /\ pc = "zeroed"
  /\ calls = 0
  /\ emitted = 0
  /\ budget_total = 0
  /\ seq_seen = << >>
  /\ init_log = << >>
  /\ gen_log = << >>
  /\ ref = ZeroCtx
  /\ ref_out = << >>
  /\ asserts = TRUE
  /\ call = NoCall
  /\ assert_failed = ""
  /\ inits = 0
  /\ sin_lut = SinLutZero
  /\ lib_inits = 0
  /\ other = NoOther
  /\ variants = << >>
  /\ reported = << >>
  /\ bursts = NoBursts

Init == InitCtx /\ mix = NoMix

\* libsame_ctx_init(&ctx, &header, sample_rate) on the zeroed context
CtxInitFrom(S) ==
  /\ pc = "zeroed"
  /\ \E sc \in S :
       \E c \in {libsame_ctx_init(ctx, sc[2], sc[1])} :
         /\ ctx' = c
         /\ header' = sc[2]
         /\ init_log' = HeaderSerialize(ctx, sc[2]).log
         /\ budget_total' = BudgetSum(c)
         /\ seq_seen' = <<c.seq_state>>
         /\ ref' = c
  /\ pc' = "ready"
  /\ call' = <<"libsame_ctx_init", "&ctx", "&header">>
  /\ inits' = inits + 1
  /\ UNCHANGED <<calls, emitted, gen_log, ref_out, asserts, assert_failed,
                 procvars>>

\* libsame_samples_gen(&ctx), called while ctx.seq_state != LIBSAME_SEQ_STATE_NUM
SamplesGenWith(withRef) ==
  /\ pc = "ready"
  /\ ctx.seq_state < LIBSAME_SEQ_STATE_NUM
  /\ calls < MaxCalls
  /\ \E g \in {libsame_samples_gen(ctx)} :
       /\ ctx' = g.ctx
       /\ gen_log' = g.log
       /\ emitted' = emitted + Len(g.log)
       /\ seq_seen' = IF g.ctx.seq_state = seq_seen[Len(seq_seen)]
                      THEN seq_seen
                      ELSE Append(seq_seen, g.ctx.seq_state)
       /\ IF withRef
          THEN \E r \in {RefRange(ref, 0, LIBSAME_SAMPLES_NUM_MAX)} :
                 ref' = r.ctx /\ ref_out' = r.out
          ELSE UNCHANGED <<ref, ref_out>>
  /\ calls' = calls + 1
  /\ call' = <<"libsame_samples_gen", "&ctx", "-">>
  /\ UNCHANGED <<header, pc, init_log, budget_total, asserts, assert_failed,
                 inits, procvars>>

CtxInit == CtxInitFrom(Scenarios)

SamplesGen == SamplesGenWith(FALSE)

Next == CtxInit \/ SamplesGen

Spec == Init /\ [][Next]_vars

\* the serializer on every descriptor of InitScenarios
CtxInitAny == CtxInitFrom(InitScenarios)

NextInit == CtxInitAny

SpecInit == Init /\ [][NextInit]_vars

\* generation with the one-sample-at-a-time reference run alongside
CtxInitStream == CtxInitFrom(StreamScenarios)

SamplesGenStream == SamplesGenWith(TRUE)

NextStream == CtxInitStream \/ SamplesGenStream

SpecStream == Init /\ [][NextStream]_vars

(***************************************************************************)
(* Misuse of the interface, with and without LIBSAME_ASSERT compiled in,   *)
(* and the reuse of a context.                                             *)
(***************************************************************************)
\* the most calls of libsame_ctx_init made on one context
MaxInits == 2

\* the start of the usage runs: either build of the library
InitUsage ==
  /\ ctx = ZeroCtx
  /\ header = ZeroHeader
  /\ pc = "zeroed"
  /\ calls = 0
  /\ emitted = 0
  /\ budget_total = 0
  /\ seq_seen = << >>
  /\ init_log = << >>
  /\ gen_log = << >>
  /\ ref = ZeroCtx
  /\ ref_out = << >>
  /\ asserts \in BOOLEAN
  /\ call = NoCall
  /\ assert_failed = ""
  /\ inits = 0
  /\ sin_lut = SinLutZero
  /\ lib_inits = 0
  /\ other = NoOther
  /\ variants = << >>
  /\ mix = NoMix
  /\ reported = << >>
  /\ bursts = NoBursts

\* short generation runs: 261 Hz, where a run takes two calls
UsageScenarios == { <<261, MakeHeader(k, 8)>> : k \in 0..3 }

\* the assertions at the head of libsame_ctx_init, in order: the expression
\* of the first one that fails for these arguments, "" when none does
CtxInitAsserts_NoHeaderCheck(ctx_arg, header_arg) ==
  IF ctx_arg = "NULL" THEN "ctx != NULL" ELSE ""

CtxInitAsserts(ctx_arg, header_arg) ==
  IF ctx_arg = "NULL" THEN "ctx != NULL"
  ELSE IF header_arg = "NULL" THEN "header != NULL"
  ELSE ""

\* the assertions of libsame_samples_gen with <= in the place of <
SamplesGenAsserts_OffByOne(ctx_arg, c) ==
  IF ctx_arg = "NULL" THEN "ctx != NULL"
  ELSE IF ~(c.seq_state <= LIBSAME_SEQ_STATE_NUM)
  THEN "ctx->seq_state < LIBSAME_SEQ_STATE_NUM"
  ELSE ""

\* the assertions of libsame_samples_gen before its loop, in order
SamplesGenAsserts(ctx_arg, c) ==
  IF ctx_arg = "NULL" THEN "ctx != NULL"
  ELSE IF ~(c.seq_state < LIBSAME_SEQ_STATE_NUM)
  THEN "ctx->seq_state < LIBSAME_SEQ_STATE_NUM"
  ELSE ""

\* the contexts a call with undefined behaviour may leave behind; the call
\* may as well never return
UndefinedOutcomes(c) == {c, ZeroCtx, [c EXCEPT !.seq_state = 0]}

\* A call whose arguments break a precondition.  With LIBSAME_ASSERT compiled
\* in, the failing assertion hands its expression to libsame_assert_failed,
\* which does not return, before the function has read or written anything.
\* Without it (or when no assertion catches the breach) the function goes on
\* to dereference a null pointer or to run the loop in a phase that does not
\* exist (LIBSAME_UNREACHABLE): undefined behaviour.
Misuse(failed) ==
  /\ IF asserts /\ failed # ""
     THEN /\ assert_failed' = failed
          /\ pc' = "aborted"
          /\ ctx' = ctx
     ELSE /\ assert_failed' = assert_failed
          /\ pc' = "undefined"
          /\ ctx' \in UndefinedOutcomes(ctx)
  /\ UNCHANGED <<header, calls, emitted, budget_total, seq_seen, init_log,
                 gen_log, ref, ref_out, asserts, inits, procvars>>

\* libsame_ctx_init with a null context, a null header, or both
CtxInitNull ==
  /\ pc \in {"zeroed", "ready"}
  /\ \E ctx_arg \in {"&ctx", "NULL"}, header_arg \in {"&header", "NULL"} :
       /\ ctx_arg = "NULL" \/ header_arg = "NULL"
       /\ call' = <<"libsame_ctx_init", ctx_arg, header_arg>>
       /\ Misuse(CtxInitAsserts(ctx_arg, header_arg))

\* libsame_samples_gen with a null context
SamplesGenNull ==
  /\ pc \in {"zeroed", "ready"}
  /\ call' = <<"libsame_samples_gen", "NULL", "-">>
  /\ Misuse(SamplesGenAsserts("NULL", ctx))

\* libsame_samples_gen(&ctx) on a context that is already terminal
SamplesGenTerminal ==
  /\ pc = "ready"
  /\ ctx.seq_state >= LIBSAME_SEQ_STATE_NUM
  /\ call' = <<"libsame_samples_gen", "&ctx", "-">>
  /\ Misuse(SamplesGenAsserts("&ctx", ctx))

\* libsame_ctx_init(&ctx, &header, sample_rate) again, on the context a run
\* has left terminal, with the descriptor and the rate of that run (the loop
\* of benchmark_default_path)
CtxReinit ==
  /\ pc = "ready"
  /\ ctx.seq_state = LIBSAME_SEQ_STATE_NUM
  /\ inits < MaxInits
  /\ \E c \in {libsame_ctx_init(ctx, header, ctx.sample_rate)} :
       /\ ctx' = c
       /\ init_log' = HeaderSerialize(ctx, header).log
       /\ budget_total' = BudgetSum(c)
       /\ seq_seen' = <<c.seq_state>>
       /\ ref' = c
  /\ calls' = 0
  /\ emitted' = 0
  /\ gen_log' = << >>
  /\ ref_out' = << >>
  /\ call' = <<"libsame_ctx_init", "&ctx", "&header">>
  /\ inits' = inits + 1
  /\ UNCHANGED <<header, pc, asserts, assert_failed, procvars>>

CtxInitUsage == CtxInitFrom(UsageScenarios)

\* libsame_attn_sig_duration_min_get() and libsame_attn_sig_duration_max_get()
\* called one after the other, whatever the context holds
AttnSigDurationsGet ==
  /\ pc \in {"zeroed", "ready"}
  /\ reported' = <<libsame_attn_sig_duration_min_get,
                   libsame_attn_sig_duration_max_get>>
  /\ call' = <<"libsame_attn_sig_duration_get", "-", "-">>
  /\ UNCHANGED <<ctx, header, pc, calls, emitted, budget_total, seq_seen,
                 init_log, gen_log, ref, ref_out, asserts, assert_failed,
                 inits, sin_lut, lib_inits, other, variants, mix, bursts>>

NextUsage ==
  \/ CtxInitUsage
  \/ AttnSigDurationsGet
  \/ SamplesGen
  \/ CtxReinit
  \/ CtxInitNull
  \/ SamplesGenNull
  \/ SamplesGenTerminal

SpecUsage == InitUsage /\ [][NextUsage]_vars

\* the serializer on descriptors with content behind the end marker
MarkerScenarios ==
  { <<sr, MarkerHeader(k, tail)>> :
      sr \in {11025, 22050, 48000},
      k \in 0..(LIBSAME_LOCATION_CODES_NUM_MAX - 1),
      tail \in {"codes", "markers"} }

CtxInitMarker == CtxInitFrom(MarkerScenarios)

NextMarker == CtxInitMarker

SpecMarker == Init /\ [][NextMarker]_vars

\* libsame_ctx_init(&ctx, &header, sample_rate) called again right after the
\* first call, with the same descriptor and the same rate
CtxInitSame ==
  /\ pc = "ready"
  /\ calls = 0
  /\ inits < MaxInits
  /\ \E c \in {libsame_ctx_init(ctx, header, ctx.sample_rate)} :
       /\ ctx' = c
       /\ init_log' = HeaderSerialize(ctx, header).log
       /\ budget_total' = BudgetSum(c)
       /\ seq_seen' = <<c.seq_state>>
       /\ ref' = c
  /\ call' = <<"libsame_ctx_init", "&ctx", "&header">>
  /\ inits' = inits + 1
  /\ UNCHANGED <<header, pc, calls, emitted, gen_log, ref_out, asserts,
                 assert_failed, procvars>>

NextTwice == CtxInitAny \/ CtxInitSame

SpecTwice == Init /\ [][NextTwice]_vars

(***************************************************************************)
(* Two contexts of one process, in the build of the default engine and in  *)
(* the build of the LUT engine.  The calls are interleaved whole; a        *)
(* schedule of two threads that cuts calls on distinct contexts into       *)
(* pieces has the result of one of these orders as long as no call writes  *)
(* what the other call reads or writes, which is what is checked of each   *)
(* call.                                                                   *)
(***************************************************************************)
\* the most calls of libsame_init made
MaxLibInits == 2

\* the most calls of libsame_samples_gen made on each of the two contexts
MaxPairCalls == 2

\* the runs of the two contexts: at both rates the first chunks end inside
\* the first burst, at different bytes and bits
PairScenarios == { <<8000, MakeHeader(0, 8)>> }

OtherScenarios == { <<11025, MakeHeader(1, 25)>> }

InitPair ==
  /\ \E b \in {"LIBC", "LUT"} :
       /\ ctx = [ZeroCtx EXCEPT !.build = b]
       /\ ref = [ZeroCtx EXCEPT !.build = b]
       /\ other = [ctx |-> [ZeroCtx EXCEPT !.build = b], pc |-> "zeroed",
                   calls |-> 0]
  /\ header = ZeroHeader
  /\ pc = "zeroed"
  /\ calls = 0
  /\ emitted = 0
  /\ budget_total = 0
  /\ seq_seen = << >>
  /\ init_log = << >>
  /\ gen_log = << >>
  /\ ref_out = << >>
  /\ asserts = TRUE
  /\ call = NoCall
  /\ assert_failed = ""
  /\ inits = 0
  /\ sin_lut = SinLutZero
  /\ lib_inits = 0
  /\ variants = << >>
  /\ mix = NoMix
  /\ reported = << >>
  /\ bursts = NoBursts

\* libsame_init()
LibsameInit ==
  /\ lib_inits < MaxLibInits
  /\ sin_lut' = libsame_init(ctx.build, sin_lut)
  /\ lib_inits' = lib_inits + 1
  /\ call' = <<"libsame_init", "-", "-">>
  /\ UNCHANGED <<ctx, header, pc, calls, emitted, budget_total, seq_seen,
                 init_log, gen_log, ref, ref_out, asserts, assert_failed,
                 inits, other, variants, mix, reported,
                 bursts>>

\* the other context: the successor of the context of who
Peer(who) == IF who = "a" THEN "b" ELSE "a"

\* the AFSK sub-state kept in one static object that every context uses
SamplesGenOn_SharedAfsk(mem, who) ==
  LET g == libsame_samples_gen([mem[who] EXCEPT !.afsk = mem[Peer(who)].afsk])
  IN  [mem EXCEPT ![who] = g.ctx, ![Peer(who)].afsk = g.ctx.afsk,
                  !.log = g.log]

\* libsame_samples_gen(&who) in the memory mem of the process, which holds
\* the two contexts a and b and the table lut: the memory the call leaves,
\* with the stores it made into sample_data (log)
SamplesGenOn(mem, who) ==
  LET g == libsame_samples_gen(mem[who])
  IN  [mem EXCEPT ![who] = g.ctx, !.log = g.log]

\* the memory of the process
Memory == [a |-> ctx, b |-> other.ctx, lut |-> sin_lut, log |-> << >>]

\* libsame_ctx_init(&ctx, &header, sample_rate), after libsame_init
CtxInitPair == lib_inits > 0 /\ CtxInitFrom(PairScenarios)

\* libsame_ctx_init(&other, &header, sample_rate), after libsame_init
CtxInitOther ==
  /\ lib_inits > 0
  /\ other.pc = "zeroed"
  /\ \E sc \in OtherScenarios :
       other' = [ctx |-> libsame_ctx_init(other.ctx, sc[2], sc[1]),
                 pc |-> "ready", calls |-> 0]
  /\ call' = <<"libsame_ctx_init", "&other", "&header">>
  /\ UNCHANGED <<ctx, header, pc, calls, emitted, budget_total, seq_seen,
                 init_log, gen_log, ref, ref_out, asserts, assert_failed,
                 inits, sin_lut, lib_inits, variants, mix, reported,
                 bursts>>

\* libsame_samples_gen(&ctx) with the other context in memory
SamplesGenPair ==
  /\ pc = "ready"
  /\ ctx.seq_state < LIBSAME_SEQ_STATE_NUM
  /\ calls < MaxPairCalls
  /\ \E m \in {SamplesGenOn(Memory, "a")} :
       /\ ctx' = m.a
       /\ other' = [other EXCEPT !.ctx = m.b]
       /\ sin_lut' = m.lut
       /\ gen_log' = m.log
       /\ emitted' = emitted + Len(m.log)
       /\ seq_seen' = IF m.a.seq_state = seq_seen[Len(seq_seen)]
                      THEN seq_seen
                      ELSE Append(seq_seen, m.a.seq_state)
  /\ calls' = calls + 1
  /\ call' = <<"libsame_samples_gen", "&ctx", "-">>
  /\ UNCHANGED <<header, pc, init_log, budget_total, ref, ref_out, asserts,
                 assert_failed, inits, lib_inits, variants, mix, reported,
                 bursts>>

\* libsame_samples_gen(&other) with ctx in memory
SamplesGenOther ==
  /\ other.pc = "ready"
  /\ other.ctx.seq_state < LIBSAME_SEQ_STATE_NUM
  /\ other.calls < MaxPairCalls
  /\ \E m \in {SamplesGenOn(Memory, "b")} :
       /\ ctx' = m.a
       /\ other' = [other EXCEPT !.ctx = m.b, !.calls = @ + 1]
       /\ sin_lut' = m.lut
  /\ call' = <<"libsame_samples_gen", "&other", "-">>
  /\ UNCHANGED <<header, pc, calls, emitted, budget_total, seq_seen,
                 init_log, gen_log, ref, ref_out, asserts, assert_failed,
                 inits, lib_inits, variants, mix, reported,
                 bursts>>

NextPair ==
  \/ LibsameInit
  \/ CtxInitPair
  \/ CtxInitOther
  \/ SamplesGenPair
  \/ SamplesGenOther

SpecPair == InitPair /\ [][NextPair]_vars

(***************************************************************************)
(* One attention sample in numbers: the oracle may return any int16_t for  *)
(* either tone; the values at and next to the ends of the range, around    *)
(* zero and in between are followed.                                       *)
(***************************************************************************)
Int16Samples ==
  {INT16_MIN, INT16_MIN + 1, INT16_MIN + 2, -16385, -16384, -3, -2, -1, 0,
   1, 2, 3, 16383, 16384, INT16_MAX - 2, INT16_MAX - 1, INT16_MAX}

InitMix ==
  /\ InitCtx
  /\ \E a \in Int16Samples, b \in Int16Samples :
       mix = [first |-> a, second |-> b, sum |-> 0, stored |-> 0,
              done |-> FALSE]

\* the arithmetic of libsame_attn_sig_gen on the two oracle samples
AttnSigGenMix ==
  /\ ~mix.done
  /\ mix' = [mix EXCEPT !.sum = AttnSum(mix.first, mix.second),
                         !.stored = Int16Cast(AttnSum(mix.first, mix.second)),
                         !.done = TRUE]
  /\ UNCHANGED <<ctx, header, pc, calls, emitted, budget_total, seq_seen,
                 init_log, gen_log, ref, ref_out, asserts, call,
                 assert_failed, inits, sin_lut, lib_inits, other, variants, reported,
                 bursts>>

NextMix == AttnSigGenMix

SpecMix == InitMix /\ [][NextMix]_vars

(***************************************************************************)
(* The same run made by the build of each sine engine, call for call.      *)
(***************************************************************************)
\* the runs compared: about 40, 50 and 20 calls long, and one of 2 calls
EngineScenarios ==
  { <<8000, MakeHeader(1, 8)>>,
    <<11025, MakeHeader(0, 8)>>,
    <<4000, MakeHeader(2, 8)>>,
    <<261, MakeHeader(3, 25)>> }

\* the buffer an AFSK phase modulates (the argument data of libsame_afsk_gen)
AfskData(c) ==
  IF c.seq_state \in AfskHeaderStates THEN c.header_data
  ELSE LIBSAME_EOM_HEADER

\* the frequency handed to the oracle for the next sample of context c in an
\* AFSK phase; 0 stands for the samples of the other phases
OracleFreq(c) ==
  IF c.seq_state \in AfskHeaderStates \cup AfskEomStates
  THEN AfskFreq(c, AfskData(c))
  ELSE 0

\* the frequencies of iterations lo..hi-1 of the loop of libsame_samples_gen
\* on context c, in order, and the context they leave
RECURSIVE OracleFreqs(_, _, _)
OracleFreqs(c, lo, hi) ==
  IF c.seq_state >= LIBSAME_SEQ_STATE_NUM THEN [ctx |-> c, out |-> << >>]
  ELSE IF hi - lo = 1
  THEN [ctx |-> LoopBody(c, lo).ctx, out |-> <<OracleFreq(c)>>]
  ELSE LET mid == (lo + hi) \div 2
           l == OracleFreqs(c, lo, mid)
           h == OracleFreqs(l.ctx, mid, hi)
       IN  [ctx |-> h.ctx, out |-> l.out \o h.out]

\* libsame_init() in the build of every engine: the table of the LUT build
LibsameInitEngines ==
  /\ lib_inits = 0
  /\ sin_lut' = libsame_init("LUT", sin_lut)
  /\ lib_inits' = lib_inits + 1
  /\ call' = <<"libsame_init", "-", "-">>
  /\ UNCHANGED <<ctx, header, pc, calls, emitted, budget_total, seq_seen,
                 init_log, gen_log, ref, ref_out, asserts, assert_failed,
                 inits, other, variants, mix, reported,
                 bursts>>

\* libsame_ctx_init(&ctx, &header, sample_rate) on a zeroed context in the
\* build of every engine, with the same descriptor and rate
CtxInitEngines ==
  /\ lib_inits > 0
  /\ pc = "zeroed"
  /\ \E sc \in EngineScenarios :
       /\ header' = sc[2]
       /\ variants' =
            [e \in Engines |->
               [ctx |-> libsame_ctx_init([ZeroCtx EXCEPT !.build = e],
                                         sc[2], sc[1]),
                freqs |-> << >>]]
  /\ pc' = "ready"
  /\ call' = <<"libsame_ctx_init", "&ctx", "&header">>
  /\ inits' = inits + 1
  /\ UNCHANGED <<ctx, calls, emitted, budget_total, seq_seen, init_log,
                 gen_log, ref, ref_out, asserts, assert_failed, sin_lut,
                 lib_inits, other, mix, reported,
                 bursts>>

\* libsame_samples_gen(&ctx) in the build of every engine
SamplesGenEngines ==
  /\ pc = "ready"
  /\ { e \in Engines : variants[e].ctx.seq_state < LIBSAME_SEQ_STATE_NUM }
       # {}
  /\ calls < MaxCalls
  /\ variants' =
       [e \in Engines |->
          IF variants[e].ctx.seq_state < LIBSAME_SEQ_STATE_NUM
          THEN [ctx |-> libsame_samples_gen(variants[e].ctx).ctx,
                freqs |-> OracleFreqs(variants[e].ctx, 0,
                                      LIBSAME_SAMPLES_NUM_MAX).out]
          ELSE variants[e]]
  /\ calls' = calls + 1
  /\ call' = <<"libsame_samples_gen", "&ctx", "-">>
  /\ UNCHANGED <<ctx, header, pc, emitted, budget_total, seq_seen, init_log,
                 gen_log, ref, ref_out, asserts, assert_failed, inits,
                 sin_lut, lib_inits, other, mix, reported,
                 bursts>>

NextEngines == LibsameInitEngines \/ CtxInitEngines \/ SamplesGenEngines

SpecEngines == Init /\ [][NextEngines]_vars

(***************************************************************************)
(* A run started in the middle of the sequence: seq_state is set on the    *)
(* zeroed context before libsame_ctx_init (VerifyTransition of             *)
(* tests/libsame_samples_gen.cpp), and libsame_samples_gen is called for   *)
(* as long as the context is in the phase it was started in.               *)
(***************************************************************************)
\* the phases the runs start in: the AFSK bursts and the attention signal
PresetStates == AfskHeaderStates \cup {AttentionState} \cup AfskEomStates

\* the descriptor of the tests (two location codes, 8 seconds) and the
\* longest header, at 44100 Hz
PresetScenarios == { <<44100, MakeHeader(2, 8)>>, <<44100, MakeHeader(31, 8)>> }

\* ctx.seq_state = start_state; libsame_ctx_init(&ctx, &header, 44100)
CtxInitPreset ==
  /\ pc = "zeroed"
  /\ \E s \in PresetStates, sc \in PresetScenarios :
       \E c \in {libsame_ctx_init([ctx EXCEPT !.seq_state = s],
                                  sc[2], sc[1])} :
         /\ ctx' = c
         /\ header' = sc[2]
         /\ init_log' = HeaderSerialize(ctx, sc[2]).log
         /\ budget_total' = BudgetSum(c)
         /\ seq_seen' = <<c.seq_state>>
         /\ ref' = c
  /\ pc' = "ready"
  /\ call' = <<"libsame_ctx_init", "&ctx", "&header">>
  /\ inits' = inits + 1
  /\ UNCHANGED <<calls, emitted, gen_log, ref_out, asserts, assert_failed,
                 procvars>>

\* libsame_samples_gen(&ctx) while the context is in the phase it started in
SamplesGenPreset ==
  pc = "ready" /\ ctx.seq_state = seq_seen[1] /\ SamplesGen

NextPreset == CtxInitPreset \/ SamplesGenPreset

SpecPreset == Init /\ [][NextPreset]_vars

(***************************************************************************)
(* Runs at a rate that gives a bit no sample (1 to 260 Hz).  There         *)
(* afsk_samples_per_bit is 0, the budget of every AFSK phase starts at 0   *)
(* and the first decrement takes it to 0xFFFFFFFF, so the phase lasts 2^32 *)
(* samples: 2^20 calls, all alike.  Of a stretch of such calls only the    *)
(* last two are made sample by sample; the ones before them are taken in   *)
(* one stride: with no sample per bit every sample ends a bit, so n        *)
(* samples take the budget down by n and the position on by n bits, round  *)
(* the buffer of the burst.                                                *)
(***************************************************************************)
\* the most calls taken in one step
SkipCalls == 32768

\* the descriptor of examples/basic.c at the highest rate without a sample
\* per bit
WrapScenarios == { <<260, MakeHeader(2, 8)>> }

\* the bytes of the buffer of the burst the context is in (header_size in
\* the header bursts, 20 in the EOM bursts)
BurstLen(c) ==
  IF c.seq_state \in AfskEomStates THEN LIBSAME_EOM_HEADER_SIZE
  ELSE c.header_size

Min(a, b) == IF a <= b THEN a ELSE b

\* x - n in unsigned int, for 0 <= n < 2^31
UintSub(x, n) ==
  IF x >= 0 \/ x + 2147483647 + 1 >= n
  THEN x - n
  ELSE ((x + 2147483647) - n) + 2147483647 + 2

\* the whole calls an unsigned budget still covers (a budget of 0 is about
\* to wrap and covers 2^32 samples)
RemCalls(x) ==
  IF x > 0 THEN x \div LIBSAME_SAMPLES_NUM_MAX
  ELSE 1048576 + (x \div LIBSAME_SAMPLES_NUM_MAX)

\* the context after n iterations of the loop, all of them in the AFSK
\* phase the context is in, when afsk_samples_per_bit is 0
AfskSkip(c, n) ==
  LET bits == (c.afsk.data_pos * libsame_afsk_bits_per_char_get
                 + c.afsk.bit_pos + n)
                % (libsame_afsk_bits_per_char_get * BurstLen(c))
  IN  [c EXCEPT !.afsk.data_pos = bits \div libsame_afsk_bits_per_char_get,
                !.afsk.bit_pos = bits % libsame_afsk_bits_per_char_get,
                !.seq_samples_remaining[c.seq_state] = UintSub(@, n)]

\* the calls the next step takes: as many as the phase still covers whole,
\* at most SkipCalls, in an AFSK phase without a sample per bit; one
\* otherwise
StrideCalls(c) ==
  IF /\ c.seq_state \in AfskHeaderStates \cup AfskEomStates
     /\ c.afsk_samples_per_bit = 0
     /\ RemCalls(c.seq_samples_remaining[c.seq_state]) >= 2
  THEN Min(SkipCalls, RemCalls(c.seq_samples_remaining[c.seq_state]))
  ELSE 1

CtxInitWrap == CtxInitFrom(WrapScenarios)

\* the samples of each burst that are followed
BurstHead == 16

\* the iterations of one call a phase with the budget x takes, when it has
\* the whole call to itself (a budget of 0 wraps and takes them all)
UintCover(x) ==
  IF x <= 0 THEN LIBSAME_SAMPLES_NUM_MAX
  ELSE Min(x, LIBSAME_SAMPLES_NUM_MAX)

\* the iteration of a call on context c at which phase q is left (0 for a
\* phase left before the call, 4096 for one not left in it)
RECURSIVE SpanEnd(_, _)
SpanEnd(c, q) ==
  IF q < c.seq_state THEN 0
  ELSE Min(LIBSAME_SAMPLES_NUM_MAX,
           SpanEnd(c, q - 1) + UintCover(c.seq_samples_remaining[q]))

\* the heads of the bursts after a call on context c that made the stores
\* of log
BurstsAfter(b, c, log) ==
  [q \in DOMAIN b |->
     IF q < c.seq_state THEN b[q]
     ELSE LET lo == SpanEnd(c, q - 1)
              hi == Min(SpanEnd(c, q), Len(log))
              n  == Min(BurstHead - Len(b[q]), hi - lo)
          IN  b[q] \o [j \in 1..n |-> log[lo + j][2]]]

\* libsame_samples_gen(&ctx) called StrideCalls(ctx) times in a row.  The
\* phase is not left before the last of these calls: the head of its burst
\* can only grow in the first of them and in the last.
SamplesGenStride ==
  /\ pc = "ready"
  /\ ctx.seq_state < LIBSAME_SEQ_STATE_NUM
  /\ \E m \in {StrideCalls(ctx)} :
       \E c \in {IF m = 1 THEN ctx
                  ELSE libsame_samples_gen(
                         AfskSkip(ctx, (m - 2) * LIBSAME_SAMPLES_NUM_MAX)
                       ).ctx} :
         \E g \in {libsame_samples_gen(c)} :
           /\ ctx' = g.ctx
           /\ gen_log' = g.log
           /\ calls' = calls + m
           /\ seq_seen' = IF g.ctx.seq_state = seq_seen[Len(seq_seen)]
                          THEN seq_seen
                          ELSE Append(seq_seen, g.ctx.seq_state)
           /\ bursts' =
                IF m = 1 THEN BurstsAfter(bursts, c, g.log)
                ELSE BurstsAfter(
                       BurstsAfter(bursts, ctx, GenChunk(ctx, BurstHead).log),
                       c, g.log)
  /\ call' = <<"libsame_samples_gen", "&ctx", "-">>
  /\ UNCHANGED <<header, pc, emitted, init_log, budget_total, ref, ref_out,
                 asserts, assert_failed, inits,
                 sin_lut, lib_inits, other, variants, mix, reported>>

NextWrap == CtxInitWrap \/ SamplesGenStride

SpecWrap == Init /\ [][NextWrap]_vars

(***************************************************************************)
(* A context initialised again in the middle of a run, in the build of the *)
(* libc engine and in the build of the LUT engine: libsame_init, then      *)
(* libsame_ctx_init, calls of libsame_samples_gen, libsame_ctx_init on the *)
(* same context with another descriptor, and the calls that follow.        *)
(***************************************************************************)
\* the most calls of libsame_samples_gen followed after a context has been
\* initialised again
MaxFrameCalls == 1

\* the descriptor and the rate of the first initialisation, and those of
\* the ones that follow
FrameScenarios == { <<8000, MakeHeader(1, 8)>> }

AgainScenarios == { <<8000, MakeHeader(2, 25)>> }

\* libsame_init(), once, before any context is initialised
LibsameInitFrame == lib_inits = 0 /\ pc = "zeroed" /\ LibsameInit

CtxInitFrame == lib_inits > 0 /\ CtxInitFrom(FrameScenarios)

\* libsame_ctx_init(&ctx, &header, sample_rate) on the context of a run
\* under way
CtxInitAgain ==
  /\ pc = "ready"
  /\ inits < MaxInits
  /\ \E sc \in AgainScenarios :
       \E c \in {libsame_ctx_init(ctx, sc[2], sc[1])} :
         /\ ctx' = c
         /\ header' = sc[2]
         /\ init_log' = HeaderSerialize(ctx, sc[2]).log
         /\ budget_total' = BudgetSum(c)
         /\ seq_seen' = <<c.seq_state>>
         /\ ref' = c
  /\ calls' = 0
  /\ emitted' = 0
  /\ gen_log' = << >>
  /\ ref_out' = << >>
  /\ call' = <<"libsame_ctx_init", "&ctx", "&header">>
  /\ inits' = inits + 1
  /\ UNCHANGED <<pc, asserts, assert_failed, procvars>>

SamplesGenFrame == (inits = 1 \/ calls < MaxFrameCalls) /\ SamplesGen

NextFrame ==
  LibsameInitFrame \/ CtxInitFrame \/ CtxInitAgain \/ SamplesGenFrame

SpecFrame == InitPair /\ [][NextFrame]_vars

(***************************************************************************)
(* libsame_field_add called by itself, as tests/libsame_field_add.cpp      *)
(* calls it, on the header buffer of a zeroed context: with arguments that *)
(* keep its preconditions, and with arguments that break one.  The record  *)
(* of the call is <<function, data, data_size, field, field_len>>.         *)
(***************************************************************************)
\* the bytes of the buffer the calls may fill
MaxFieldBytes == 16

\* the fields handed to the function, each with its terminating NUL
FieldBytes(name) ==
  IF name = "FIELD" THEN <<70, 73, 69, 76, 68, 0>>
  ELSE <<87, 65, 69, 66, 47, 65, 77, 32, 0>>

FieldNames == {"FIELD", "WAEB/AM "}

\* the lengths a field is handed over with: its text, and its text with
\* the NUL (as the tests do), up to the largest field
FieldLens(name) ==
  {Len(FieldBytes(name)) - 1, Len(FieldBytes(name))}
    \cap 1..LIBSAME_CALLSIGN_LEN

\* the assertions without the one on the largest field
FieldAddAsserts_NoLargest(data_arg, size_arg, field_arg, field_len) ==
  IF data_arg = "NULL" THEN "data != NULL"
  ELSE IF size_arg = "NULL" THEN "data_size != NULL"
  ELSE IF field_arg = "NULL" THEN "field != NULL"
  ELSE IF ~(field_len > 0) THEN "field_len > 0"
  ELSE ""

\* the assertions at the head of libsame_field_add, in order: the
\* expression of the first one that fails for these arguments, "" when none
\* does
FieldAddAsserts(data_arg, size_arg, field_arg, field_len) ==
  IF data_arg = "NULL" THEN "data != NULL"
  ELSE IF size_arg = "NULL" THEN "data_size != NULL"
  ELSE IF field_arg = "NULL" THEN "field != NULL"
  ELSE IF ~(field_len > 0) THEN "field_len > 0"
  ELSE IF ~(field_len <= LIBSAME_CALLSIGN_LEN)
  THEN "field_len <= LIBSAME_CALLSIGN_LEN"
  ELSE ""

\* the body of libsame_field_add on ctx.header_data and ctx.header_size
FieldAddApply(name, field_len) ==
  \E r \in {libsame_field_add([data |-> ctx.header_data,
                               size |-> ctx.header_size, log |-> << >>],
                              FieldBytes(name), field_len)} :
    /\ ctx' = [ctx EXCEPT !.header_data = r.data, !.header_size = r.size]
    /\ init_log' = r.log

\* libsame_field_add(ctx.header_data, &ctx.header_size, field, field_len)
\* with 1 <= field_len <= 8 and room in the buffer
FieldAdd ==
  /\ pc = "zeroed"
  /\ \E name \in FieldNames :
       \E field_len \in FieldLens(name) :
         /\ ctx.header_size + field_len + 1 <= MaxFieldBytes
         /\ call' = <<"libsame_field_add", "data", "&size", name, field_len>>
         /\ FieldAddApply(name, field_len)
  /\ UNCHANGED <<header, pc, calls, emitted, budget_total, seq_seen, gen_log,
                 ref, ref_out, asserts, assert_failed, inits, procvars>>

\* libsame_field_add with a null pointer, a length of 0 or a length above
\* the largest field.  In a build without assertions a call with a length
\* of 0, or of all the bytes of the field with its NUL, only breaks the
\* function's own rule and runs as any other; a null pointer is
\* dereferenced.
FieldAddBad ==
  /\ pc = "zeroed"
  /\ \E data_arg \in {"data", "NULL"}, size_arg \in {"&size", "NULL"},
        field_arg \in {"WAEB/AM ", "NULL"},
        field_len \in {0, 5, LIBSAME_CALLSIGN_LEN + 1} :
       /\ \/ "NULL" \in {data_arg, size_arg, field_arg}
          \/ field_len \notin 1..LIBSAME_CALLSIGN_LEN
       /\ call' = <<"libsame_field_add", data_arg, size_arg, field_arg,
                    field_len>>
       /\ IF /\ ~asserts
             /\ "NULL" \notin {data_arg, size_arg, field_arg}
             /\ ctx.header_size + field_len + 1 <= MaxFieldBytes
          THEN /\ FieldAddApply(field_arg, field_len)
               /\ UNCHANGED <<header, pc, calls, emitted, budget_total,
                              seq_seen, gen_log, ref, ref_out, asserts,
                              assert_failed, inits, procvars>>
          ELSE /\ Misuse(FieldAddAsserts(data_arg, size_arg, field_arg,
                                         field_len))
               /\ UNCHANGED init_log

NextField == FieldAdd \/ FieldAddBad

SpecField == InitUsage /\ [][NextField]_vars

(***************************************************************************)
(* Properties                                                              *)
(***************************************************************************)
\* the number of location codes of a descriptor: the slots before the first
\* one that holds the end marker, all of them when none does
LocCount(h) ==
  LET marked == { i \in 1..LIBSAME_LOCATION_CODES_NUM_MAX :
                    MemEq(h.location_codes[i],
                          LIBSAME_LOCATION_CODE_END_MARKER,
                          LIBSAME_LOCATION_CODE_LEN) }
  IN  IF marked = {} THEN LIBSAME_LOCATION_CODES_NUM_MAX
      ELSE (CHOOSE i \in marked : \A j \in marked : i <= j) - 1

\* a descriptor and rate the interface allows: a positive sample rate and an
\* attention signal of 8 to 25 seconds
ValidInput ==
  /\ ctx.sample_rate > 0
  /\ header.attn_sig_duration \in 8..25

\* the least number of chunks that hold n samples
CeilDiv(n, d) == (n + d - 1) \div d

\* C1: at 44100 Hz the values of seq_state seen at the returns of
\* libsame_samples_gen are 0, 1, 2, ... up to the current one, each once and
\* in this order: no decrease, no phase skipped, every change an increment by
\* one, up to the terminal value 14.
C1_PhaseOrder ==
  (pc = "ready" /\ ctx.sample_rate = 44100 /\ ValidInput)
    => /\ ctx.seq_state \in 0..LIBSAME_SEQ_STATE_NUM
       /\ seq_seen = [i \in 1..(ctx.seq_state + 1) |-> i - 1]

\* the 44100 Hz run has gone through all fourteen phases and is terminal
C1_Witness ==
  /\ pc = "ready" /\ ctx.sample_rate = 44100 /\ ValidInput
  /\ ctx.seq_state = LIBSAME_SEQ_STATE_NUM
  /\ Len(seq_seen) = LIBSAME_SEQ_STATE_NUM + 1

\* C2: for a positive sample rate and an attention signal of 8 to 25 seconds
\* the context is terminal exactly when ceil(T / 4096) calls have been made,
\* T being the sum of the fourteen initial budgets.
C2_CallsExact ==
  (pc = "ready" /\ ValidInput)
    => (ctx.seq_state = LIBSAME_SEQ_STATE_NUM
          <=> calls = CeilDiv(budget_total, LIBSAME_SAMPLES_NUM_MAX))

\* the samples libsame_ctx_init budgets for: three header bursts, three EOM
\* bursts, seven silences and the attention signal
ExpectedTotal ==
  3 * 8 * ctx.afsk_samples_per_bit * ctx.header_size
  + 3 * 8 * ctx.afsk_samples_per_bit * LIBSAME_EOM_HEADER_SIZE
  + 7 * ctx.sample_rate
  + header.attn_sig_duration * ctx.sample_rate

\* C3: at every return of libsame_samples_gen the budgets sum to the initial
\* sum less the samples emitted so far, no budget has wrapped (a negative
\* entry stands for an unsigned value of 2^31 or more) and no more samples
\* have been emitted than were budgeted; a terminal context has emitted
\* exactly 3*8*samples_per_bit*header_size + 3*8*samples_per_bit*20
\* + 7*sample_rate + attn_sig_duration*sample_rate samples and its budgets
\* sum to 0.
C3_BudgetConservation ==
  (pc = "ready" /\ ValidInput)
    => /\ \A p \in DOMAIN ctx.seq_samples_remaining :
            ctx.seq_samples_remaining[p] >= 0
       /\ BudgetSum(ctx) = budget_total - emitted
       /\ emitted <= budget_total
       /\ budget_total = ExpectedTotal
       /\ ctx.seq_state = LIBSAME_SEQ_STATE_NUM
            => (emitted = ExpectedTotal /\ BudgetSum(ctx) = 0)

\* C4: a call stores one sample at each of the indices 0, 1, 2, ... in this
\* order: 4096 of them when it does not end terminal, and when it does only
\* the r samples still owed (1 <= r <= 4096), after which it returns.
C4_ChunkStores ==
  (pc = "ready" /\ calls > 0)
    => /\ ctx.seq_state < LIBSAME_SEQ_STATE_NUM
            => Len(gen_log) = LIBSAME_SAMPLES_NUM_MAX
       /\ ctx.seq_state = LIBSAME_SEQ_STATE_NUM
            => /\ Len(gen_log) \in 1..LIBSAME_SAMPLES_NUM_MAX
               /\ Len(gen_log) = budget_total - (emitted - Len(gen_log))
       /\ \A j \in 1..Len(gen_log) :
            /\ gen_log[j][1] = j - 1
            /\ ctx.sample_data[j - 1] = gen_log[j][2]

\* the last call of a run stored fewer than 4096 samples and ended terminal
C4_Witness ==
  /\ pc = "ready" /\ calls > 1
  /\ ctx.seq_state = LIBSAME_SEQ_STATE_NUM
  /\ Len(gen_log) < LIBSAME_SAMPLES_NUM_MAX
  /\ gen_log[Len(gen_log)][1] = Len(gen_log) - 1

\* a context without its sample buffer
Scalars(c) == [c EXCEPT !.sample_data = << >>]

\* C5: the samples a call stores are the next window of the stream that the
\* same context yields one sample per call, and the call leaves the context
\* (phase, budgets, AFSK and attention state) where that run is: nothing is
\* dropped, repeated or reordered at a chunk boundary.
C5_StreamWindows ==
  (pc = "ready" /\ calls > 0)
    => /\ ref_out = [j \in 1..Len(gen_log) |-> ctx.sample_data[j - 1]]
       /\ Scalars(ctx) = Scalars(ref)

\* a chunk boundary inside a bit of an AFSK burst, and one inside the
\* attention signal
C5_Witness ==
  /\ pc = "ready" /\ calls > 1
  /\ Len(ref_out) = LIBSAME_SAMPLES_NUM_MAX
  /\ \/ ctx.afsk.sample_num > 0 /\ ctx.afsk.data_pos > 0
     \/ ctx.seq_state = AttentionState /\ ctx.attn_sig_sample_num > 0

\* the n bytes of the header buffer from index lo on
Bytes(lo, n) == [j \in 1..n |-> ctx.header_data[lo + j - 1]]

\* the first n bytes of a descriptor field
Field(f, n) == SubSeq(f, 1, n)

\* C6 as stated: header_size is 50 + 7k for a descriptor of k location
\* codes (64 for two).
C6_HeaderSize50 ==
  pc = "ready" => ctx.header_size = 50 + 7 * LocCount(header)

\* C6: after libsame_ctx_init, header_size is 51 + 7k for a descriptor of k
\* location codes: 65 for two codes, 58 for one, 268 for thirty-one.
C6_HeaderSize51 ==
  pc = "ready"
    => /\ ctx.header_size = 51 + 7 * LocCount(header)
       /\ LocCount(header) = 2 => ctx.header_size = 65
       /\ LocCount(header) = 1 => ctx.header_size = 58
       /\ LocCount(header) = LIBSAME_LOCATION_CODES_NUM_MAX
            => ctx.header_size = LIBSAME_HEADER_SIZE_MAX

\* descriptors of one, two and thirty-one location codes have been serialized
C6_Witness ==
  /\ pc = "ready"
  /\ LocCount(header) \in {1, 2, LIBSAME_LOCATION_CODES_NUM_MAX}
  /\ ctx.header_size = 51 + 7 * LocCount(header)
  /\ ctx.header_size \in {58, 65, LIBSAME_HEADER_SIZE_MAX}

RECURSIVE LocationsText(_, _)
\* the first k location codes of a descriptor, each after a dash
LocationsText(h, k) ==
  IF k = 0 THEN << >>
  ELSE LocationsText(h, k - 1)
         \o <<CH_DASH>>
         \o Field(h.location_codes[k], LIBSAME_LOCATION_CODE_LEN)

\* what follows the 21 fixed bytes: ORG-EEE-PSSCCC-...-PSSCCC+TTTT-JJJHHMM-
\* LLLLLLLL-
FieldsText(h) ==
  Field(h.originator_code, LIBSAME_ORIGINATOR_CODE_LEN)
    \o <<CH_DASH>>
    \o Field(h.event_code, LIBSAME_EVENT_CODE_LEN)
    \o LocationsText(h, LocCount(h))
    \o <<CH_PLUS>>
    \o Field(h.valid_time_period, LIBSAME_VALID_TIME_PERIOD_LEN)
    \o <<CH_DASH>>
    \o Field(h.originator_time, LIBSAME_ORIGINATOR_TIME_LEN)
    \o <<CH_DASH>>
    \o Field(h.callsign, LIBSAME_CALLSIGN_LEN)
    \o <<CH_DASH>>

\* C7: the bytes from index 21 to header_size - 1 are the originator code, a
\* dash, the event code, each location code after a dash, a plus instead of
\* the dash after the last code, then the valid time period, the originator
\* time and the callsign, each followed by a dash, in this order.
C7_FieldOrder ==
  pc = "ready"
    => Bytes(LIBSAME_PREAMBLE_NUM + LIBSAME_ASCII_ID_LEN + 1,
             ctx.header_size
               - (LIBSAME_PREAMBLE_NUM + LIBSAME_ASCII_ID_LEN + 1))
         = FieldsText(header)

\* a descriptor of several location codes has been serialized
C7_Witness ==
  /\ pc = "ready"
  /\ LocCount(header) = 3
  /\ Bytes(21, 22) = <<87, 88, 82, CH_DASH, 84, 79, 82, CH_DASH,
                       48, 52, 56, 48, 48, 49, CH_DASH,
                       48, 52, 56, 48, 48, 50, CH_DASH>>
  /\ ctx.header_data[42 + 7] = CH_PLUS

\* C8: once libsame_ctx_init has run, whatever the descriptor, bytes 0..15 of
\* the header buffer are 0xAB, bytes 16..19 are "ZCZC" and byte 20 is a dash;
\* the serialization of the fields stores nothing below index 21 and
\* libsame_samples_gen leaves these bytes alone.
C8_FixedPrefix ==
  pc = "ready"
    => /\ \A i \in 0..(LIBSAME_PREAMBLE_NUM - 1) :
            ctx.header_data[i] = LIBSAME_PREAMBLE
       /\ Bytes(LIBSAME_PREAMBLE_NUM, LIBSAME_ASCII_ID_LEN)
            = <<90, 67, 90, 67>>
       /\ ctx.header_data[LIBSAME_PREAMBLE_NUM + LIBSAME_ASCII_ID_LEN]
            = CH_DASH
       /\ \A j \in (Len(LIBSAME_INITIAL_HEADER) + 1)..Len(init_log) :
            init_log[j][1] > LIBSAME_PREAMBLE_NUM + LIBSAME_ASCII_ID_LEN

\* the all-zero descriptor has been serialized and samples generated from it
C8_Witness ==
  /\ pc = "ready"
  /\ header = ZeroHeader
  /\ calls > 1
  /\ Bytes(0, 21) = SubSeq(LIBSAME_INITIAL_HEADER, 1, 21)

\* the index of the plus: after the 21 fixed bytes, the originator and event
\* codes with their dashes and the location codes with theirs
PlusIndex == 28 + 7 * LocCount(header)

\* C9: the byte right before the valid time period is "+", the last byte of
\* the header is "-" and follows the callsign, and for descriptor fields
\* without a "+" the header holds exactly one "+".
C9_PlusAndTrailingDash ==
  pc = "ready"
    => /\ ctx.header_data[PlusIndex] = CH_PLUS
       /\ Bytes(PlusIndex + 1, LIBSAME_VALID_TIME_PERIOD_LEN)
            = Field(header.valid_time_period, LIBSAME_VALID_TIME_PERIOD_LEN)
       /\ ctx.header_data[ctx.header_size - 1] = CH_DASH
       /\ Bytes(ctx.header_size - 1 - LIBSAME_CALLSIGN_LEN,
                LIBSAME_CALLSIGN_LEN)
            = Field(header.callsign, LIBSAME_CALLSIGN_LEN)
       /\ Cardinality({ i \in 0..(ctx.header_size - 1) :
                          ctx.header_data[i] = CH_PLUS }) = 1

\* a descriptor without location codes, whose plus replaces the dash after
\* the event code
C9_Witness ==
  /\ pc = "ready"
  /\ LocCount(header) = 0
  /\ header.attn_sig_duration = 8
  /\ ctx.header_data[28] = CH_PLUS
  /\ ctx.header_data[ctx.header_size - 1] = CH_DASH

\* C10: libsame_ctx_init stores only at indices below LIBSAME_HEADER_SIZE_MAX
\* (268) of the header buffer and leaves header_size at most 268, for every
\* descriptor, with an end marker or with all 31 location codes.
C10_HeaderBounded ==
  /\ \A j \in 1..Len(init_log) :
       init_log[j][1] \in 0..(LIBSAME_HEADER_SIZE_MAX - 1)
  /\ ctx.header_size <= LIBSAME_HEADER_SIZE_MAX
  /\ pc = "ready"
       => (ctx.header_size - 51) \div 7 <= LIBSAME_LOCATION_CODES_NUM_MAX

\* 31 location codes and no end marker: the last store is at the last index
C10_Witness ==
  /\ pc = "ready"
  /\ LocCount(header) = LIBSAME_LOCATION_CODES_NUM_MAX
  /\ \A i \in 1..LIBSAME_LOCATION_CODES_NUM_MAX :
       ~MemEq(header.location_codes[i], LIBSAME_LOCATION_CODE_END_MARKER,
              LIBSAME_LOCATION_CODE_LEN)
  /\ init_log[Len(init_log)][1] = LIBSAME_HEADER_SIZE_MAX - 1
  /\ ctx.header_size = LIBSAME_HEADER_SIZE_MAX

\* the 6-byte windows of a sequence of bytes that hold the end marker
MarkerWindows(bytes) ==
  { j \in 1..(Len(bytes) - LIBSAME_LOCATION_CODE_LEN + 1) :
      SubSeq(bytes, j, j + LIBSAME_LOCATION_CODE_LEN - 1)
        = LIBSAME_LOCATION_CODE_END_MARKER }

\* the stores libsame_ctx_init makes for a descriptor of k location codes:
\* the initial header, ORG-, EEE-, k times PSSCCC-, the plus, TTTT-, JJJHHMM-
\* and LLLLLLLL-
StoresFor(k) ==
  Len(LIBSAME_INITIAL_HEADER)
  + (LIBSAME_ORIGINATOR_CODE_LEN + 1) + (LIBSAME_EVENT_CODE_LEN + 1)
  + k * (LIBSAME_LOCATION_CODE_LEN + 1) + 1
  + (LIBSAME_VALID_TIME_PERIOD_LEN + 1) + (LIBSAME_ORIGINATOR_TIME_LEN + 1)
  + (LIBSAME_CALLSIGN_LEN + 1)

\* C11: the location codes serialized are exactly the slots before the first
\* one whose six bytes are "SPOOKY": the header is made of them alone, the
\* slots at and behind the marker cause no store whatever they hold, and the
\* marker is never copied, so no six bytes of the header (the bytes the AFSK
\* bursts modulate) nor six successive stores spell it.
C11_MarkerStops ==
  pc = "ready"
    => /\ ctx.header_size = 51 + 7 * LocCount(header)
       /\ Bytes(21, ctx.header_size - 21) = FieldsText(header)
       /\ Len(init_log) = StoresFor(LocCount(header))
       /\ MarkerWindows(Bytes(0, ctx.header_size)) = {}
       /\ MarkerWindows([j \in 1..Len(init_log) |-> init_log[j][2]]) = {}

\* two codes, the marker, and location codes behind the marker
C11_Witness ==
  /\ pc = "ready"
  /\ LocCount(header) = 2
  /\ header.location_codes[4] = LocCode(4)
  /\ header.location_codes[3][LIBSAME_LOCATION_CODE_LEN + 1] = 57
  /\ ctx.header_size = 65

\* C12: libsame_ctx_init leaves the same budget in the three header phases,
\* 8 * afsk_samples_per_bit * header_size; for two location codes at 44100 Hz
\* it is 8 * 85 * 65.
C12_HeaderBudgets ==
  pc = "ready"
    => /\ \A p \in {0, 2, 4} :
            ctx.seq_samples_remaining[p]
              = 8 * ctx.afsk_samples_per_bit * ctx.header_size
       /\ (ctx.sample_rate = 44100 /\ LocCount(header) = 2)
            => \A p \in {0, 2, 4} : ctx.seq_samples_remaining[p] = 8 * 85 * 65

\* two location codes at 44100 Hz have been budgeted
C12_Witness ==
  /\ pc = "ready"
  /\ ctx.sample_rate = 44100
  /\ LocCount(header) = 2
  /\ ctx.seq_samples_remaining[0] = 44200
  /\ ctx.seq_samples_remaining[2] = 44200
  /\ ctx.seq_samples_remaining[4] = 44200

\* C13: libsame_ctx_init leaves 8 * afsk_samples_per_bit * 20 in each of the
\* three EOM phases, 1 * sample_rate in each of the seven silence phases and
\* attn_sig_duration * sample_rate in the attention phase: 13600, 44100 and
\* 352800 at 44100 Hz for 8 seconds.
C13_OtherBudgets ==
  pc = "ready"
    => /\ \A p \in {8, 10, 12} :
            ctx.seq_samples_remaining[p] = 8 * ctx.afsk_samples_per_bit * 20
       /\ \A p \in {1, 3, 5, 7, 9, 11, 13} :
            ctx.seq_samples_remaining[p] = ctx.sample_rate
       /\ ctx.seq_samples_remaining[6]
            = header.attn_sig_duration * ctx.sample_rate
       /\ (ctx.sample_rate = 44100 /\ header.attn_sig_duration = 8)
            => /\ \A p \in {8, 10, 12} : ctx.seq_samples_remaining[p] = 13600
               /\ \A p \in {1, 3, 5, 7, 9, 11, 13} :
                    ctx.seq_samples_remaining[p] = 44100
               /\ ctx.seq_samples_remaining[6] = 352800

\* 44100 Hz and 8 seconds of attention signal have been budgeted
C13_Witness ==
  /\ pc = "ready"
  /\ ctx.sample_rate = 44100
  /\ header.attn_sig_duration = 8
  /\ ctx.seq_samples_remaining[12] = 13600
  /\ ctx.seq_samples_remaining[13] = 44100
  /\ ctx.seq_samples_remaining[6] = 352800

\* the sample rates libsame_ctx_init is given in the serializer runs
InitRates == { sc[1] : sc \in InitScenarios }

\* C14: libsame_ctx_init stores the sample rate it is given, and
\* afsk_samples_per_bit is the integer nearest to sample_rate / 520.83 (at
\* most half a bit period away), which is not always the truncated quotient:
\* 85 and not 84 at 44100 Hz.
C14_SamplesPerBitRounded ==
  pc = "ready"
    => /\ ctx.sample_rate \in InitRates
       /\ 2 * (100 * ctx.sample_rate - 52083 * ctx.afsk_samples_per_bit)
            <= 52083
       /\ 2 * (52083 * ctx.afsk_samples_per_bit - 100 * ctx.sample_rate)
            <= 52083
       /\ ctx.sample_rate = 44100 => ctx.afsk_samples_per_bit = 85

\* 44100 Hz, where rounding and truncation differ
C14_Witness ==
  /\ pc = "ready"
  /\ ctx.sample_rate = 44100
  /\ ctx.afsk_samples_per_bit = 85
  /\ (100 * ctx.sample_rate) \div 52083 = 84

\* The stream a context owes, by position: phase p takes PhaseLen(p) samples
\* and begins at sample PhaseStart[p] of the stream, counted from 0, after
\* all the phases before it.
PhaseLen(p) ==
  IF p \in {0, 2, 4} THEN 8 * ctx.afsk_samples_per_bit * ctx.header_size
  ELSE IF p \in {8, 10, 12} THEN 8 * ctx.afsk_samples_per_bit * 20
  ELSE IF p = 6 THEN header.attn_sig_duration * ctx.sample_rate
  ELSE ctx.sample_rate

RECURSIVE PhaseLenSum(_)
PhaseLenSum(p) == IF p < 0 THEN 0 ELSE PhaseLen(p) + PhaseLenSum(p - 1)

PhaseStart == [p \in 0..LIBSAME_SEQ_STATE_NUM |-> PhaseLenSum(p - 1)]

\* every phase has samples to emit, so that no budget wraps
NoWrap == \A p \in 0..(LIBSAME_SEQ_STATE_NUM - 1) : PhaseLen(p) > 0

Max(a, b) == IF a >= b THEN a ELSE b

\* the position in the stream of the first sample of the last call
ChunkBase == emitted - Len(gen_log)

\* the sample the last call stored for position n of the stream
ChunkSample(n) == gen_log[n - ChunkBase + 1][2]

\* C15: the samples of the seven silence phases, and only they, are the zero
\* sample, and each silence phase is exactly sample_rate samples long (44100
\* at 44100 Hz): the stream positions of a call that fall in a silence phase
\* hold 0, those of the other phases hold a tone, and the call leaves
\* seq_state at the phase of the next position.
C15_SilenceZeros ==
  (pc = "ready" /\ calls > 0 /\ NoWrap)
    => \A start \in {PhaseStart} :
         /\ \A p \in SilenceStates : start[p + 1] - start[p] = ctx.sample_rate
         /\ \A p \in 0..(LIBSAME_SEQ_STATE_NUM - 1) :
              \A n \in Max(start[p], ChunkBase)..(Min(start[p + 1], emitted) - 1) :
                (ChunkSample(n) = ZeroSample) <=> (p \in SilenceStates)
         /\ start[ctx.seq_state] <= emitted
         /\ ctx.seq_state < LIBSAME_SEQ_STATE_NUM
              => emitted < start[ctx.seq_state + 1]

\* a call at 44100 Hz that began in a header burst and ended in the silence
\* after it
C15_Witness ==
  /\ pc = "ready" /\ calls > 0 /\ NoWrap
  /\ ctx.sample_rate = 44100
  /\ ctx.seq_state = 1
  /\ Len(gen_log) = LIBSAME_SAMPLES_NUM_MAX
  /\ gen_log[1][2] # ZeroSample
  /\ gen_log[LIBSAME_SAMPLES_NUM_MAX][2] = ZeroSample
  /\ ctx.seq_samples_remaining[1] < 44100

\* the buffer of the burst of an AFSK phase, indexed from 0
BurstData(p) ==
  IF p \in {0, 2, 4} THEN ctx.header_data ELSE LIBSAME_EOM_HEADER

\* bit number b of a byte, bit 0 being the least significant
BitOf(byte, b) == (byte \div (2 ^ b)) % 2

\* C16: the n-th sample of an AFSK burst (n from 0) over the bytes d is a tone
\* of the bit ((n div samples_per_bit) mod 8) of d[n div (8 *
\* samples_per_bit)], bit 0 being the least significant: MARK for 1 and SPACE
\* for 0; it is sample n mod samples_per_bit of that bit, so that every bit
\* lasts samples_per_bit samples.
C16_LsbFirst ==
  (pc = "ready" /\ calls > 0 /\ NoWrap)
    => \A start \in {PhaseStart} :
         \A p \in {0, 2, 4, 8, 10, 12} :
           \A n \in Max(start[p], ChunkBase)..(Min(start[p + 1], emitted) - 1) :
             LET m == n - start[p]
                 spb == ctx.afsk_samples_per_bit
                 bit == BitOf(BurstData(p)[m \div (8 * spb)], (m \div spb) % 8)
             IN  ChunkSample(n)
                   = <<"sin", m % spb, IF bit = 1 THEN 20833 ELSE 15625>>

\* a call with the first sample of a SPACE bit right after a MARK bit, at 15
\* samples per bit
C16_Witness ==
  /\ pc = "ready" /\ calls > 0 /\ NoWrap
  /\ ctx.afsk_samples_per_bit = 15
  /\ \E j \in 15..(Len(gen_log) - 1) :
       /\ gen_log[j][2] = <<"sin", 14, 20833>>
       /\ gen_log[j + 1][2] = <<"sin", 0, 15625>>

\* the 20 bytes of the end of message: 16 preamble bytes and "NNNN"
EomBytes == [i \in 0..19 |-> IF i < 16 THEN 171 ELSE 78]

\* C17: phases 0, 2 and 4 modulate header_data[0..header_size-1] and
\* nothing else, phases 8, 10 and 12 the 20 EOM bytes (16 times 0xAB and
\* "NNNN"); phase 6 stores attention samples only, counted from the start of
\* the phase, and the silence phases silence only.
C17_PhaseDispatch ==
  (pc = "ready" /\ calls > 0 /\ NoWrap)
    => \A start \in {PhaseStart} :
         /\ \A p \in {0, 2, 4} :
              start[p + 1] - start[p]
                = 8 * ctx.afsk_samples_per_bit * ctx.header_size
         /\ \A p \in {8, 10, 12} :
              start[p + 1] - start[p] = 8 * ctx.afsk_samples_per_bit * 20
         /\ \A p \in 0..(LIBSAME_SEQ_STATE_NUM - 1) :
              \A n \in Max(start[p], ChunkBase)..(Min(start[p + 1], emitted) - 1) :
                LET m == n - start[p]
                    s == ChunkSample(n)
                    byte == m \div (8 * ctx.afsk_samples_per_bit)
                    b == (m \div ctx.afsk_samples_per_bit) % 8
                IN  IF p \in {0, 2, 4}
                    THEN /\ s[1] = "sin"
                         /\ byte < ctx.header_size
                         /\ (s[3] = 20833) <=> (BitOf(ctx.header_data[byte], b) = 1)
                    ELSE IF p \in {8, 10, 12}
                    THEN /\ s[1] = "sin"
                         /\ (s[3] = 20833) <=> (BitOf(EomBytes[byte], b) = 1)
                    ELSE IF p = 6
                    THEN s = <<"attn", m, 0>>
                    ELSE s = <<"zero", 0, 0>>

\* a call that began in a silence, went through a whole EOM burst and ended
\* in the next silence
C17_Witness ==
  /\ pc = "ready" /\ calls > 0 /\ NoWrap
  /\ ctx.seq_state \in {9, 11, 13}
  /\ Len(gen_log) = LIBSAME_SAMPLES_NUM_MAX
  /\ gen_log[1][2] = ZeroSample
  /\ gen_log[LIBSAME_SAMPLES_NUM_MAX][2] = ZeroSample
  /\ \E j \in 1..Len(gen_log) : gen_log[j][2][1] = "sin"

\* C18: libsame_samples_gen(&ctx) on a context whose seq_state is already 14,
\* in a build with assertions, hands "ctx->seq_state < LIBSAME_SEQ_STATE_NUM"
\* to libsame_assert_failed, which does not return, and has by then stored no
\* sample and changed no field of the context.
C18_TerminalCallAsserts ==
  [][(/\ asserts
      /\ pc = "ready"
      /\ ctx.seq_state = LIBSAME_SEQ_STATE_NUM
      /\ call' = <<"libsame_samples_gen", "&ctx", "-">>)
       => /\ pc' = "aborted"
          /\ assert_failed' = "ctx->seq_state < LIBSAME_SEQ_STATE_NUM"
          /\ ctx' = ctx
          /\ gen_log' = gen_log
          /\ emitted' = emitted
          /\ calls' = calls]_vars

\* a run has ended, libsame_samples_gen has been called once more and the
\* assertion has stopped it
C18_Witness ==
  /\ asserts
  /\ pc = "aborted"
  /\ call = <<"libsame_samples_gen", "&ctx", "-">>
  /\ assert_failed = "ctx->seq_state < LIBSAME_SEQ_STATE_NUM"
  /\ ctx.seq_state = LIBSAME_SEQ_STATE_NUM
  /\ calls > 0
  /\ emitted = budget_total

\* C19: in a build with assertions, libsame_ctx_init with a null context or a
\* null header and libsame_samples_gen with a null context hand the failed
\* expression to libsame_assert_failed, which does not return: the call
\* reads and writes nothing (context, descriptor and buffers are as before)
\* and returns nothing to the caller.
C19_NullArgumentsAssert ==
  [][(/\ asserts
      /\ pc \in {"zeroed", "ready"}
      /\ call'[2] = "NULL" \/ call'[3] = "NULL")
       => /\ pc' = "aborted"
          /\ assert_failed'
               = (IF call'[2] = "NULL" THEN "ctx != NULL" ELSE "header != NULL")
          /\ ctx' = ctx
          /\ header' = header
          /\ init_log' = init_log
          /\ gen_log' = gen_log
          /\ emitted' = emitted
          /\ inits' = inits]_vars

\* libsame_ctx_init has been called with a context and a null header
C19_Witness ==
  /\ asserts
  /\ pc = "aborted"
  /\ call = <<"libsame_ctx_init", "&ctx", "NULL">>
  /\ assert_failed = "header != NULL"
  /\ inits = 0
  /\ ctx = ZeroCtx

\* C20: a terminal context that libsame_ctx_init is called on again is ready
\* for the loop 'while seq_state != 14: libsame_samples_gen': it is in phase
\* 0, not terminal, with the whole stream to emit.
C20_ReinitReady ==
  (pc = "ready" /\ inits > 1 /\ calls = 0)
    => /\ ctx.seq_state = 0
       /\ BudgetSum(ctx) = budget_total
       /\ budget_total > 0

\* C21: a call of libsame_ctx_init made right after another one, with the
\* same descriptor and sample rate, leaves header_size, the bytes
\* header_data[0..header_size-1], afsk_samples_per_bit and the 14 phase
\* budgets as the first call left them.
C21_InitIdempotent ==
  [][(pc = "ready" /\ calls = 0 /\ inits' = inits + 1
        /\ call' = <<"libsame_ctx_init", "&ctx", "&header">>)
     => /\ ctx'.header_size = ctx.header_size
        /\ \A i \in 0..(ctx.header_size - 1) :
             ctx'.header_data[i] = ctx.header_data[i]
        /\ ctx'.afsk_samples_per_bit = ctx.afsk_samples_per_bit
        /\ ctx'.seq_samples_remaining = ctx.seq_samples_remaining]_vars

\* the second call has been made on the longest header
C21_Witness ==
  /\ pc = "ready"
  /\ inits = 2
  /\ calls = 0
  /\ ctx.header_size = LIBSAME_HEADER_SIZE_MAX
  /\ ctx.seq_samples_remaining[0] > 0

\* C22: at every boundary of a public function on a context that was zeroed
\* and initialised, seq_state is in 0..14 and never above; it is 14 exactly
\* when every phase budget has been consumed entirely, and in 0..13 as long
\* as a budget still holds samples to emit.
C22_SeqStateRange ==
  pc = "ready" =>
    /\ ctx.seq_state \in 0..LIBSAME_SEQ_STATE_NUM
    /\ (ctx.seq_state = LIBSAME_SEQ_STATE_NUM)
         <=> (\A p \in DOMAIN ctx.seq_samples_remaining :
                ctx.seq_samples_remaining[p] = 0)
    /\ (\E p \in DOMAIN ctx.seq_samples_remaining :
          ctx.seq_samples_remaining[p] # 0)
         => ctx.seq_state \in 0..(LIBSAME_SEQ_STATE_NUM - 1)
    /\ \A p \in DOMAIN ctx.seq_samples_remaining :
         p < ctx.seq_state => ctx.seq_samples_remaining[p] = 0

\* a run at 8000 Hz has reached the terminal state
C22_Witness ==
  /\ pc = "ready"
  /\ ctx.sample_rate = 8000
  /\ calls > 30
  /\ ctx.seq_state = LIBSAME_SEQ_STATE_NUM
  /\ BudgetSum(ctx) = 0

C24_AttnNoClip ==
  mix.done =>
    /\ mix.sum \in INT16_MIN..INT16_MAX
    /\ mix.stored = mix.sum
    /\ mix.sum = TruncDiv(mix.first, 2) + TruncDiv(mix.second, 2)

\* both tones at the negative end of the range: the sum is -32768; and both
\* at the positive end
C24_Witness ==
  /\ mix.done
  /\ \/ mix.first = INT16_MIN /\ mix.second = INT16_MIN
        /\ mix.stored = INT16_MIN
     \/ mix.first = INT16_MAX /\ mix.second = INT16_MAX
        /\ mix.stored = INT16_MAX - 1

\* what the oracle does not decide: the phase, the budgets and the byte,
\* bit and sample counters of a context
Control(c) ==
  [seq_state |-> c.seq_state,
   seq_samples_remaining |-> c.seq_samples_remaining,
   data_pos |-> c.afsk.data_pos,
   bit_pos |-> c.afsk.bit_pos,
   sample_num |-> c.afsk.sample_num,
   attn_sig_sample_num |-> c.attn_sig_sample_num,
   header_size |-> c.header_size,
   afsk_samples_per_bit |-> c.afsk_samples_per_bit]

\* the indices of the samples of a call at which the frequency differs from
\* the one of the sample before
SwitchIndices(freqs) ==
  { i \in 2..Len(freqs) : freqs[i] # freqs[i - 1] }

\* C25: variant parity.  For the same descriptor and sample rate, whichever
\* sine engine the build uses (LIBC, LUT, TAYLOR, APP), every call hands the
\* same frequency to the oracle for each sample, so the bursts switch
\* between MARK and SPACE at the same sample indices, and leaves the same
\* phase, budgets and byte, bit and sample counters: none of them depends
\* on what the oracle returns.
C25_VariantParity ==
  (pc = "ready" /\ variants # << >>) =>
    \A e \in Engines :
      /\ variants[e].ctx.build = e
      /\ Control(variants[e].ctx) = Control(variants["LIBC"].ctx)
      /\ variants[e].freqs = variants["LIBC"].freqs
      /\ SwitchIndices(variants[e].freqs)
           = SwitchIndices(variants["LIBC"].freqs)

\* a call that ends inside a bit of a burst, with switches between MARK and
\* SPACE in it, and a table build whose samples differ from the libc ones
C25_Witness ==
  /\ pc = "ready" /\ calls > 0 /\ variants # << >>
  /\ variants["LUT"].ctx.afsk.sample_num > 0
  /\ variants["LUT"].ctx.afsk.phase > 0
  /\ Cardinality(SwitchIndices(variants["LUT"].freqs)) > 2
  /\ variants["LUT"].ctx.sample_data # variants["LIBC"].ctx.sample_data
  /\ variants["TAYLOR"].ctx.sample_data # variants["APP"].ctx.sample_data

C27_AttnDurationBounds ==
  reported # << >> => reported = <<8, 25>>

\* the bounds asked for on a context that has been run to its end and
\* initialised again
C27_Witness ==
  /\ reported = <<8, 25>>
  /\ call = <<"libsame_attn_sig_duration_get", "-", "-">>
  /\ pc = "ready"
  /\ inits = 2
  /\ ctx.seq_state = LIBSAME_SEQ_STATE_NUM

\* C28: a zeroed context whose seq_state is preset to an AFSK or attention
\* phase s and which is then initialised at 44100 Hz is in phase s until
\* the calls made, n, satisfy n * 4096 >= budget[s], and in phase s + 1
\* exactly then: the samples the last chunk has left over are taken from
\* the budget of phase s + 1 and do not use it up, so no call crosses more
\* than one phase boundary.
C28_PresetTransition ==
  (pc = "ready" /\ ctx.sample_rate = 44100) =>
    LET s == seq_seen[1]
        n == CeilDiv(PhaseLen(s), LIBSAME_SAMPLES_NUM_MAX)
        surplus == n * LIBSAME_SAMPLES_NUM_MAX - PhaseLen(s)
    IN  /\ s \in {0, 2, 4, 6, 8, 10, 12}
        /\ calls <= n
        /\ calls < n => ctx.seq_state = s
        /\ calls = n
             => /\ ctx.seq_state = s + 1
                /\ seq_seen = <<s, s + 1>>
                /\ ctx.seq_samples_remaining[s] = 0
                /\ ctx.seq_samples_remaining[s + 1]
                     = PhaseLen(s + 1) - surplus
                /\ ctx.seq_samples_remaining[s + 1] > 0

\* the run started in the third EOM burst has left it, with samples of the
\* last silence already taken
C28_Witness ==
  /\ pc = "ready"
  /\ seq_seen = <<12, 13>>
  /\ ctx.seq_state = 13
  /\ calls = 4
  /\ ctx.seq_samples_remaining[13] < ctx.sample_rate
  /\ ctx.seq_samples_remaining[0] > 0

\* C29: at every return of libsame_samples_gen afsk.bit_pos is in 0..7,
\* afsk.sample_num is in 0..afsk_samples_per_bit-1 and afsk.data_pos is
\* below the length of the buffer of the current burst, so that no byte
\* past the end of the data is read.
C29_AfskBounds ==
  (pc = "ready" /\ calls > 0) =>
    /\ ctx.afsk.bit_pos \in 0..(libsame_afsk_bits_per_char_get - 1)
    /\ ctx.afsk.data_pos \in 0..(BurstLen(ctx) - 1)
    /\ ctx.afsk.sample_num \in 0..(ctx.afsk_samples_per_bit - 1)

\* the stride agrees with the loop: one call in an AFSK phase without a
\* sample per bit leaves the budget and the position where 4096 samples
\* taken in one stride leave them
StrideAgrees ==
  [][(call' = <<"libsame_samples_gen", "&ctx", "-">>
        /\ calls' = calls + 1
        /\ ctx.seq_state \in AfskHeaderStates \cup AfskEomStates
        /\ ctx'.seq_state = ctx.seq_state
        /\ ctx.afsk_samples_per_bit = 0)
     => Scalars(ctx') = Scalars(AfskSkip(ctx, LIBSAME_SAMPLES_NUM_MAX))]_vars

\* C30: the AFSK sub-state is cleared at the end of every burst: when the
\* budget of an AFSK phase has reached zero, afsk.data_pos, afsk.bit_pos,
\* afsk.sample_num and the phase accumulator are 0, they stay 0 through the
\* silence and attention phases that follow, and every burst starts at
\* byte 0, bit 0, sample 0.
C30_BurstEndClears ==
  pc = "ready" =>
    /\ ctx.seq_state \notin AfskHeaderStates \cup AfskEomStates
         => ctx.afsk = AfskZero
    /\ \A p \in AfskHeaderStates \cup AfskEomStates :
         (ctx.seq_state > p /\ ctx.seq_samples_remaining[p] = 0)
           => (ctx.seq_state = p + 1 => ctx.afsk = AfskZero)

\* the bits of the burst of AFSK phase p that are complete
AfskBitsDone(c) ==
  c.afsk.data_pos * libsame_afsk_bits_per_char_get + c.afsk.bit_pos

\* C31: whenever seq_state is an AFSK phase p over a buffer of L bytes,
\* seq_samples_remaining[p] + (afsk.data_pos * 8 + afsk.bit_pos) *
\* afsk_samples_per_bit + afsk.sample_num = 8 * afsk_samples_per_bit * L,
\* so that the budget runs out on the sample that completes the last bit
\* of the last byte.
C31_BudgetCoupling ==
  (pc = "ready" /\ ctx.seq_state \in AfskHeaderStates \cup AfskEomStates) =>
    ctx.seq_samples_remaining[ctx.seq_state]
      + AfskBitsDone(ctx) * ctx.afsk_samples_per_bit
      + ctx.afsk.sample_num
    = libsame_afsk_bits_per_char_get * ctx.afsk_samples_per_bit
        * BurstLen(ctx)

\* C32: each burst consumes the same byte buffer independently: the three
\* header bursts of a run emit the same samples (the same sample in the bit
\* at the same frequency, one after the other), and so do the three EOM
\* bursts; here over the first BurstHead samples of each burst.
C32_BurstsAlike ==
  \A S \in {AfskHeaderStates, AfskEomStates} :
    \A p, q \in S :
      \A j \in 1..Min(Len(bursts[p]), Len(bursts[q])) :
        bursts[p][j] = bursts[q][j]

\* C33: attn_sig_sample_num counts the samples of the attention phase and
\* nothing else: in a run from a zeroed context it is 0 until phase 6
\* starts, the number of attention samples produced while the phase lasts
\* and attn_sig_duration * sample_rate once it has ended, and the i-th
\* attention sample is the oracle's at the time i / sample_rate.
C33_AttnSampleNum ==
  pc = "ready" =>
    /\ ctx.attn_sig_sample_num
         = IF ctx.seq_state < AttentionState THEN 0
           ELSE IF ctx.seq_state = AttentionState
           THEN header.attn_sig_duration * ctx.sample_rate
                  - ctx.seq_samples_remaining[AttentionState]
           ELSE header.attn_sig_duration * ctx.sample_rate
    /\ (calls > 0 /\ NoWrap) =>
         \A n \in Max(PhaseStart[AttentionState], ChunkBase)
                  ..(Min(PhaseStart[AttentionState + 1], emitted) - 1) :
           ChunkSample(n) = AttnSample(n - PhaseStart[AttentionState])

\* a call that stored the last samples of the attention signal and left the
\* context in the silence after it
C33_Witness ==
  /\ pc = "ready" /\ NoWrap
  /\ ctx.seq_state = AttentionState + 1
  /\ ctx.attn_sig_sample_num = header.attn_sig_duration * ctx.sample_rate
  /\ ctx.attn_sig_sample_num > LIBSAME_SAMPLES_NUM_MAX
  /\ gen_log[1][2] = AttnSample(ctx.attn_sig_sample_num - Len(gen_log)
                                  + ctx.sample_rate
                                  - ctx.seq_samples_remaining[ctx.seq_state])

\* C34: no budget counter wraps: each of the 14 phase budgets
\* libsame_ctx_init computes is at least 1, for every positive sample rate
\* and every attn_sig_duration in 8..25, and at no return of
\* libsame_samples_gen does a budget hold a value above the one it was
\* given (a decrement of 0 leaves 0xFFFFFFFF).
C34_NoBudgetWraps ==
  (pc = "ready" /\ ctx.sample_rate > 0
     /\ header.attn_sig_duration \in libsame_attn_sig_duration_min_get
                                       ..libsame_attn_sig_duration_max_get) =>
    \A p \in 0..(LIBSAME_SEQ_STATE_NUM - 1) :
      /\ calls = 0 => ctx.seq_samples_remaining[p] >= 1
      /\ ctx.seq_samples_remaining[p] \in 0..PhaseLen(p)

\* C35: libsame_ctx_init writes header_data, header_size, sample_rate,
\* afsk_samples_per_bit and seq_samples_remaining only: seq_state, the AFSK
\* sub-state, attn_sig_sample_num, the attention phase accumulators and
\* sample_data are after the call what they were before it, so that the
\* generation starts from the phase seq_state held (0 for a zeroed
\* context).
C35_InitFrame ==
  [][(call' = <<"libsame_ctx_init", "&ctx", "&header">>
        /\ inits' = inits + 1)
     => /\ ctx'.seq_state = ctx.seq_state
        /\ ctx'.afsk = ctx.afsk
        /\ ctx'.attn_sig_sample_num = ctx.attn_sig_sample_num
        /\ ctx'.attn_sig_phase_first = ctx.attn_sig_phase_first
        /\ ctx'.attn_sig_phase_second = ctx.attn_sig_phase_second
        /\ ctx'.sample_data = ctx.sample_data
        /\ pc = "zeroed" => ctx'.seq_state = 0]_vars

\* the context was initialised again in the middle of the second header
\* burst, in the build of the LUT engine, and the call that followed went
\* on from that byte
C35_Witness ==
  /\ pc = "ready"
  /\ inits = 2
  /\ calls = 1
  /\ ctx.build = "LUT"
  /\ seq_seen = <<2>>
  /\ ctx.afsk.data_pos > 0
  /\ ctx.afsk.phase > 0
  /\ ctx.header_size = 65
  /\ gen_log[1][2] # ZeroSample

\* C36: a call of libsame_samples_gen leaves the configuration computed at
\* initialisation alone: header_data, header_size, sample_rate and
\* afsk_samples_per_bit are unchanged, so are the budgets of the phases
\* that were not active during the call (those before the phase the call
\* began in and those after the phase it ended in), and so is the caller's
\* libsame_header.
C36_GenFrame ==
  [][(call' = <<"libsame_samples_gen", "&ctx", "-">> /\ calls' > calls)
     => /\ ctx'.header_data = ctx.header_data
        /\ ctx'.header_size = ctx.header_size
        /\ ctx'.sample_rate = ctx.sample_rate
        /\ ctx'.afsk_samples_per_bit = ctx.afsk_samples_per_bit
        /\ \A p \in 0..(LIBSAME_SEQ_STATE_NUM - 1) :
             (p < ctx.seq_state \/ p > ctx'.seq_state)
               => ctx'.seq_samples_remaining[p] = ctx.seq_samples_remaining[p]
        /\ header' = header]_vars

\* a call went through a whole phase and into the next, with budgets before
\* and after the phases it was in
C36_Witness ==
  /\ pc = "ready"
  /\ calls > 1
  /\ Len(seq_seen) > 2
  /\ seq_seen[Len(seq_seen)] - seq_seen[Len(seq_seen) - 1] = 2
  /\ ctx.seq_state \in 3..(LIBSAME_SEQ_STATE_NUM - 2)
  /\ ctx.seq_samples_remaining[0] = 0
  /\ ctx.seq_samples_remaining[LIBSAME_SEQ_STATE_NUM - 1] = ctx.sample_rate

\* C37: the call of libsame_samples_gen that reaches the terminal state
\* after storing r < 4096 samples leaves sample_data[r..4095] as they were
\* before it, that is as the previous call wrote them: they are not zeroed,
\* and the last chunk read whole replays samples of the chunk before.
C37_StaleTail ==
  [][(call' = <<"libsame_samples_gen", "&ctx", "-">> /\ calls' > calls
        /\ ctx'.seq_state = LIBSAME_SEQ_STATE_NUM
        /\ Len(gen_log') < LIBSAME_SAMPLES_NUM_MAX)
     => /\ \A i \in Len(gen_log')..(LIBSAME_SAMPLES_NUM_MAX - 1) :
             ctx'.sample_data[i] = ctx.sample_data[i]
        /\ \A i \in 0..(Len(gen_log') - 1) :
             ctx'.sample_data[i] = gen_log'[i + 1][2]]_vars

\* the second and last call of a run at 261 Hz: behind the samples it stored
\* the buffer still holds the third header burst and the attention signal
\* of the first call
C37_Witness ==
  /\ pc = "ready"
  /\ calls = 2
  /\ ctx.seq_state = LIBSAME_SEQ_STATE_NUM
  /\ Len(gen_log) \in 1..(LIBSAME_SAMPLES_NUM_MAX - 1)
  /\ gen_log[Len(gen_log)][2] = ZeroSample
  /\ ctx.sample_data[Len(gen_log)][1] = "sin"
  /\ ctx.sample_data[LIBSAME_SAMPLES_NUM_MAX - 2][1] = "attn"

\* the phase accumulators of a context
Accumulators(c) ==
  {c.afsk.phase, c.attn_sig_phase_first, c.attn_sig_phase_second}

\* the table entries the samples of a buffer were read from
LutIndices(sd) ==
  UNION { IF sd[i][1] = "lut" THEN {sd[i][2]}
          ELSE IF sd[i][1] = "attn_lut" THEN {sd[i][2], sd[i][3]}
          ELSE {} : i \in DOMAIN sd }

\* C38: in the build of the LUT engine every phase accumulator (AFSK,
\* attention first, attention second) is at least 0 and below the table
\* size N around every call of libsame_sin, also when the step of a sample
\* is larger than N, so that every sample is read from an entry 0..N-1 of
\* the table.
C38_LutPhaseBounds ==
  (pc = "ready" /\ variants # << >>) =>
    LET c == variants["LUT"].ctx
    IN  /\ \A ph \in Accumulators(c) :
             /\ ph >= 0
             /\ ph < LIBSAME_CONFIG_SINE_LUT_SIZE * PhaseUnit(c)
        /\ LutIndices(c.sample_data)
             \subseteq 0..(LIBSAME_CONFIG_SINE_LUT_SIZE - 1)

\* the run at 261 Hz, where the step of every tone is larger than the
\* table, is in the attention signal: both attention accumulators have
\* moved and the buffer holds samples of the bursts and of the signal
C38_Witness ==
  /\ pc = "ready" /\ variants # << >>
  /\ variants["LUT"].ctx.sample_rate = 261
  /\ libsame_attn_sig_freq_first_get * LIBSAME_CONFIG_SINE_LUT_SIZE
       > LIBSAME_CONFIG_SINE_LUT_SIZE * PhaseUnit(variants["LUT"].ctx)
  /\ variants["LUT"].ctx.seq_state = AttentionState
  /\ variants["LUT"].ctx.attn_sig_phase_first > 0
  /\ variants["LUT"].ctx.attn_sig_phase_second > 0
  /\ \E i \in DOMAIN variants["LUT"].ctx.sample_data :
       /\ variants["LUT"].ctx.sample_data[i][1] = "attn_lut"
       /\ variants["LUT"].ctx.sample_data[i][2] > 0
  /\ \E i \in DOMAIN variants["LUT"].ctx.sample_data :
       /\ variants["LUT"].ctx.sample_data[i][1] = "lut"
       /\ variants["LUT"].ctx.sample_data[i][2] > 0

\* C39: libsame_field_add(data, &size, field, len) with 1 <= len <= 8
\* copies the len bytes of field to data[size..size+len-1], writes '-' at
\* data[size+len], increases size by len + 1 and leaves every byte of data
\* below the old size as it was.
C39_FieldAdd ==
  [][(call'[1] = "libsame_field_add" /\ pc' = "zeroed"
        /\ call'[5] \in 1..LIBSAME_CALLSIGN_LEN)
     => LET old == ctx.header_size
            len == call'[5]
        IN  /\ \A j \in 1..len :
                 ctx'.header_data[old + j - 1] = FieldBytes(call'[4])[j]
            /\ ctx'.header_data[old + len] = CH_DASH
            /\ ctx'.header_size = old + len + 1
            /\ \A i \in 0..(old - 1) :
                 ctx'.header_data[i] = ctx.header_data[i]]_vars

\* the call of the test, "FIELD" with length 5, made behind the callsign
C39_Witness ==
  /\ pc = "zeroed"
  /\ call = <<"libsame_field_add", "data", "&size", "FIELD", 5>>
  /\ ctx.header_size = 15
  /\ ctx.header_data[0] = 87
  /\ ctx.header_data[8] = CH_DASH
  /\ ctx.header_data[9] = 70
  /\ ctx.header_data[14] = CH_DASH

\* C40: in a build with assertions libsame_field_add hands the failing
\* expression to libsame_assert_failed, which does not return, before it
\* has written a byte or changed the size, when data, data_size or field is
\* null, when field_len is 0, and when field_len is above the largest field
\* length (8, the callsign's).
C40_FieldAddAsserts ==
  [][(/\ asserts
      /\ call'[1] = "libsame_field_add"
      /\ \/ "NULL" \in {call'[2], call'[3], call'[4]}
         \/ call'[5] = 0
         \/ call'[5] > 8)
       => /\ pc' = "aborted"
          /\ assert_failed'
               = (IF call'[2] = "NULL" THEN "data != NULL"
                  ELSE IF call'[3] = "NULL" THEN "data_size != NULL"
                  ELSE IF call'[4] = "NULL" THEN "field != NULL"
                  ELSE IF call'[5] = 0 THEN "field_len > 0"
                  ELSE "field_len <= LIBSAME_CALLSIGN_LEN")
          /\ ctx' = ctx
          /\ init_log' = init_log]_vars

\* a field of 9 bytes was handed over behind a field already in the buffer
C40_Witness ==
  /\ asserts
  /\ pc = "aborted"
  /\ call = <<"libsame_field_add", "data", "&size", "WAEB/AM ", 9>>
  /\ assert_failed = "field_len <= LIBSAME_CALLSIGN_LEN"
  /\ ctx.header_size > 0
  /\ ctx.header_data[ctx.header_size] = 0

====
